---------------------------- MODULE Spec2Model ----------------------------
(***************************************************************************)
(* A model of scripts/collect_topconf_papers.py: the entity resolver       *)
(* (canonicalize_raw_paper, dedup_keys, merge_papers, deduplicate_papers)  *)
(* and the rate-limited client (PoliteHttpClient).                         *)
(*                                                                         *)
(* Text is modelled as a sequence of one-character strings (titles,        *)
(* venues, abstracts, author names) or as a sequence of tokens (DOIs,      *)
(* arXiv ids, URLs), so that the normalisers are computed, not assumed.    *)
(* Python's None is the one-token text <<"None">>, which no input uses.    *)
(***************************************************************************)
EXTENDS Integers, Sequences, FiniteSets, TLC

\* ------------------------------------------------------------------ bounds

\* The longest input sequence deduplicate_papers is run on.
MaxPapers == 4

\* The largest --retries a client is built with.
MaxRetries == 3

\* Times are in hundredths of a second.  The time since a host's last request
\* is counted up to Horizon (more than any --min-interval of the model).
Horizon == 700

\* ------------------------------------------------------------- text basics

None == <<"None">>

NoYear == 0

Truthy(s) == s # None /\ s # <<>>

Max(a, b) == IF a >= b THEN a ELSE b

Min(a, b) == IF a <= b THEN a ELSE b

RECURSIVE Flatten(_)
Flatten(ss) == IF ss = <<>> THEN <<>> ELSE Head(ss) \o Flatten(Tail(ss))

IsSpace(c) == c \in {" ", "\t"}

\* str.lower() on the characters and tokens the inputs are built from.
Lower(c) ==
    CASE c = "A" -> "a"
      [] c = "B" -> "b"
      [] c = "C" -> "c"
      [] c = "D" -> "d"
      [] c = "E" -> "e"
      [] c = "I" -> "i"
      [] c = "K" -> "k"
      [] c = "L" -> "l"
      [] c = "M" -> "m"
      [] c = "N" -> "n"
      [] c = "O" -> "o"
      [] c = "P" -> "p"
      [] c = "S" -> "s"
      [] c = "DOI:" -> "doi:"
      [] c = "Doi:" -> "doi:"
      [] c = "10.1/A" -> "10.1/a"
      [] c = "arXiv:" -> "arxiv:"
      [] c = "ARXIV.ORG/ABS/" -> "arxiv.org/abs/"
      [] c = "HTTP://" -> "http://"
      [] c = "X.ORG/" -> "x.org/"
      [] c = "V2" -> "v2"
      [] OTHER -> c

LowerAll(s) == [i \in 1..Len(s) |-> Lower(s[i])]

\* re.sub(r"\s+", " ", text).strip()
RECURSIVE CollapseSpaces(_, _)
CollapseSpaces(s, prevSpace) ==
    IF s = <<>> THEN <<>>
    ELSE IF IsSpace(Head(s))
         THEN (IF prevSpace THEN <<>> ELSE <<" ">>) \o CollapseSpaces(Tail(s), TRUE)
         ELSE <<Head(s)>> \o CollapseSpaces(Tail(s), FALSE)

RECURSIVE Strip(_)
Strip(s) ==
    IF s = <<>> THEN <<>>
    ELSE IF IsSpace(Head(s)) THEN Strip(Tail(s))
    ELSE IF IsSpace(s[Len(s)]) THEN Strip(SubSeq(s, 1, Len(s) - 1))
    ELSE s

normalize_whitespace(text) == Strip(CollapseSpaces(text, FALSE))

\* unicodedata.normalize("NFKD", ...).encode("ascii", "ignore"): an accented
\* letter ("e_acute", U+00E9) keeps its base letter, any other non-ASCII
\* character ("u4e2d", U+4E2D) is dropped.
AsciiFold(c) ==
    CASE c = "e_acute" -> <<"e">>
      [] c = "u4e2d" -> <<>>
      [] OTHER -> <<c>>

IsAlnum(c) ==
    c \in {"a", "b", "c", "d", "e", "f", "g", "h", "i", "j", "k", "l", "m",
           "n", "o", "p", "q", "r", "s", "t", "u", "v", "w", "x", "y", "z",
           "0", "1", "2", "3", "4", "5", "6", "7", "8", "9"}

\* re.sub(r"[^a-z0-9]+", " ", text), up to the collapsing normalize_whitespace does
NonAlnumToSpace(text) ==
    [i \in 1..Len(text) |-> IF IsAlnum(text[i]) THEN text[i] ELSE " "]

AsciiFoldAll(text) == Flatten([i \in 1..Len(text) |-> AsciiFold(text[i])])

normalize_title(text) ==
    normalize_whitespace(NonAlnumToSpace(LowerAll(AsciiFoldAll(text))))

\* ------------------------------------------------------------- identifiers

\* Tokens matched by DOI_PREFIX_RE, ^https?://(?:dx\.)?doi\.org/ ignoring case.
DoiUrlPrefixTokens ==
    {"http://doi.org/", "https://doi.org/", "http://dx.doi.org/", "https://dx.doi.org/",
     "HTTPS://DOI.ORG/"}

\* Tokens that start with "10." once lowercased.
StartsWith10(tok) == tok \in {"10.1/a", "10.1/b"}

DropDoiUrlPrefix(doi) ==
    IF doi # <<>> /\ Head(doi) \in DoiUrlPrefixTokens THEN Tail(doi) ELSE doi

\* (a variant of DropDoiScheme) the scheme in lower case only
DropDoiScheme_lower_only(doi) ==
    IF doi # <<>> /\ Head(doi) = "doi:" THEN Tail(doi) ELSE doi

DropDoiScheme(doi) ==
    IF doi # <<>> /\ Lower(Head(doi)) = "doi:" THEN Tail(doi) ELSE doi

AcceptDoi(doi) == IF doi = <<>> \/ ~StartsWith10(Head(doi)) THEN None ELSE doi

normalize_doi(raw_doi) ==
    IF ~Truthy(raw_doi) THEN None
    ELSE AcceptDoi(LowerAll(Strip(DropDoiScheme(DropDoiUrlPrefix(Strip(raw_doi))))))

\* Token classes the ARXIV_PATTERNS look for.
ArxivPathTokens == {"arxiv.org/abs/", "arxiv.org/pdf/", "ARXIV.ORG/ABS/"}

ArxivSchemeTokens == {"arxiv:", "arXiv:"}

NewStyleIdTokens == {"2301.00001", "2302.00002"}

OldStyleIdTokens == {"cs/0301001"}

VersionTokens == {"v2", "V2"}

QueryTokens == {"?download=1", "?q=1"}

FragmentTokens == {"#top"}

RECURSIVE TakeUntil(_, _)
TakeUntil(s, stops) ==
    IF s = <<>> \/ Head(s) \in stops THEN <<>>
    ELSE <<Head(s)>> \o TakeUntil(Tail(s), stops)

RECURSIVE DropWhile(_, _)
DropWhile(s, skipped) ==
    IF s # <<>> /\ Head(s) \in skipped THEN DropWhile(Tail(s), skipped) ELSE s

Positions(s, toks) == {i \in 1..Len(s) : s[i] \in toks}

FirstPos(ps) == CHOOSE i \in ps : \A j \in ps : i <= j

Without(s, toks) == SelectSeq(s, LAMBDA t : t \notin toks)

\* group(1) of a pattern's match at position i, and of its first match in c
\* (<<>> when the pattern matches nowhere).
GroupAfter(c, i, skipped, stops) ==
    TakeUntil(DropWhile(SubSeq(c, i + 1, Len(c)), skipped), stops)

FirstGroup(c, heads, skipped, stops) ==
    IF \A i \in Positions(c, heads) : GroupAfter(c, i, skipped, stops) = <<>>
    THEN <<>>
    ELSE GroupAfter(c, FirstPos({i \in Positions(c, heads) :
                                    GroupAfter(c, i, skipped, stops) # <<>>}),
                    skipped, stops)

\* arxiv\.org/(?:abs|pdf)/([^/?#]+)
ArxivPathMatch(c) == FirstGroup(c, ArxivPathTokens, {}, {"/"})

\* \barxiv:\s*([^\s]+)
ArxivSchemeMatch(c) == FirstGroup(c, ArxivSchemeTokens, {" ", "\t"}, {" ", "\t"})

IdAt(c, i) ==
    IF i < Len(c) /\ c[i + 1] \in VersionTokens THEN <<c[i], c[i + 1]>> ELSE <<c[i]>>

\* \b(<id>(?:v\d+)?)\b for the new-style and the old-style identifiers
IdWithVersion(c, ids) ==
    IF Positions(c, ids) = {} THEN <<>> ELSE IdAt(c, FirstPos(Positions(c, ids)))

StripVersion(m) ==
    IF m # <<>> /\ m[Len(m)] = "v2" THEN SubSeq(m, 1, Len(m) - 1) ELSE m

\* The patterns in order; the first that matches gives group(1).
ArxivMatches(c) ==
    <<ArxivPathMatch(c), ArxivSchemeMatch(c),
      IdWithVersion(c, NewStyleIdTokens), IdWithVersion(c, OldStyleIdTokens), c>>

FirstMatch(ms) == ms[FirstPos({k \in 1..Len(ms) : ms[k] # <<>>})]

NoneIfEmpty(text) == IF text = <<>> THEN None ELSE text

ArxivFromCandidate(candidate) ==
    IF candidate = <<>> THEN None
    ELSE NoneIfEmpty(StripVersion(LowerAll(Strip(FirstMatch(ArxivMatches(candidate))))))

normalize_arxiv_id(raw_arxiv) ==
    IF ~Truthy(raw_arxiv) THEN None
    ELSE ArxivFromCandidate(
             Strip(TakeUntil(TakeUntil(Without(Strip(raw_arxiv), {".pdf"}),
                                       QueryTokens), FragmentTokens)))

extract_arxiv_id(text) == IF ~Truthy(text) THEN None ELSE normalize_arxiv_id(text)

FirstYear == 1900

LastYear == 2100

\* The raw year is an integer or None (NoYear); int() of anything else fails.
coerce_year(value) ==
    IF value = NoYear THEN NoYear
    ELSE IF FirstYear <= value /\ value <= LastYear THEN value ELSE NoYear

HttpScheme(cleaned) ==
    IF cleaned = <<>> THEN None
    ELSE IF Lower(Head(cleaned)) \notin {"http://", "https://"} THEN None
    ELSE cleaned

clean_url(url) == IF ~Truthy(url) THEN None ELSE HttpScheme(Strip(url))

LooksLikePdf(lowered) ==
    \/ lowered # <<>> /\ lowered[Len(lowered)] = ".pdf"
    \/ \E i \in 1..(Len(lowered) - 1) :
          lowered[i] = ".pdf" /\ lowered[i + 1] \in QueryTokens
    \/ /\ \E i \in 1..Len(lowered) : lowered[i] = "?download=1"
       /\ \E i \in 1..Len(lowered) : lowered[i] \in {".pdf", "pdf/"}

is_probably_pdf_url(url) == LooksLikePdf(LowerAll(url))

\* re.sub(r"<[^>]+>", " ", text), unescape, normalize_whitespace
HtmlTagTokens == {"<b>", "</b>"}

Unescape(c) == IF c = "&amp;" THEN "&" ELSE c

strip_html_tags(text) ==
    IF ~Truthy(text) THEN None
    ELSE normalize_whitespace(
             [i \in 1..Len(text) |->
                 IF text[i] \in HtmlTagTokens THEN " " ELSE Unescape(text[i])])

InSeq(x, s) == \E i \in 1..Len(s) : s[i] = x

RECURSIVE normalize_authors_from(_, _, _)
normalize_authors_from(names, seen, output) ==
    IF names = <<>> THEN output
    ELSE IF Head(names) = <<>> \/ LowerAll(Head(names)) \in seen
         THEN normalize_authors_from(Tail(names), seen, output)
         ELSE normalize_authors_from(Tail(names), seen \cup {LowerAll(Head(names))},
                                     Append(output, Head(names)))

\* Each name is whitespace-normalised, then the first of each casefold() class
\* is kept.
normalize_authors(authors) ==
    normalize_authors_from([i \in 1..Len(authors) |-> normalize_whitespace(authors[i])],
                           {}, <<>>)

\* (a variant of append_unique) every value is appended.
append_all(items, values) == items \o values

RECURSIVE append_unique(_, _)
append_unique(items, values) ==
    IF values = <<>> THEN items
    ELSE IF ~Truthy(Head(values)) \/ InSeq(Head(values), items)
         THEN append_unique(items, Tail(values))
         ELSE append_unique(Append(items, Head(values)), Tail(values))

\* ---------------------------------------------------------------- resolver

\* title = normalize_whitespace(str(raw.get("title") or ""))
canonical_title(raw) ==
    normalize_whitespace(IF Truthy(raw.title) THEN raw.title ELSE <<>>)

\* arxiv_id = normalize_arxiv_id(raw.get("arxiv_id")), else extract_arxiv_id(url)
canonical_arxiv_id(given, raw_url) ==
    IF given = None THEN extract_arxiv_id(IF Truthy(raw_url) THEN raw_url ELSE <<>>)
    ELSE given

CleanAll(urls) ==
    SelectSeq([i \in 1..Len(urls) |-> clean_url(urls[i])], LAMBDA u : Truthy(u))

canonical_pdf_urls(cleaned_pdfs, url) ==
    append_unique(<<>>, IF Truthy(url) /\ is_probably_pdf_url(url)
                        THEN Append(cleaned_pdfs, url) ELSE cleaned_pdfs)

canonical_source(raw) == IF Truthy(raw.source) THEN raw.source ELSE <<"unknown">>

canonical_source_ids(source, source_id) ==
    IF Truthy(source_id) THEN <<<<source, source_id>>>> ELSE <<>>

with_title_norm(paper) == [paper EXCEPT !.title_norm = normalize_title(paper.title)]

\* canonicalize_raw_paper returns None when canonical_title is empty; this is
\* the record it builds otherwise.
canonicalize_raw_paper(raw) ==
    with_title_norm(
        [paper_id |-> <<>>,
         title |-> canonical_title(raw),
         title_norm |-> <<>>,
         year |-> coerce_year(raw.year),
         venue |-> normalize_whitespace(IF Truthy(raw.venue) THEN raw.venue ELSE <<>>),
         authors |-> normalize_authors(raw.authors),
         abstract |-> strip_html_tags(raw.abstract),
         doi |-> normalize_doi(raw.doi),
         arxiv_id |-> canonical_arxiv_id(normalize_arxiv_id(raw.arxiv_id), raw.url),
         url |-> clean_url(raw.url),
         pdf_urls |-> canonical_pdf_urls(CleanAll(raw.pdf_urls), clean_url(raw.url)),
         sources |-> <<canonical_source(raw)>>,
         source_ids |-> canonical_source_ids(canonical_source(raw), raw.source_id)])

\* hashlib.sha1(...).hexdigest(): a digest stands for its preimage (no collisions).
Sha1(text) == <<"sha1">> \o text

fallback_key(paper) ==
    <<"fallback",
      Sha1(paper.title \o <<"|">> \o paper.url \o <<"|">> \o Flatten(paper.sources))>>

KeyIf(kind, value) == IF Truthy(value) THEN <<<<kind, value>>>> ELSE <<>>

identifier_keys(paper) ==
    KeyIf("doi", paper.doi) \o KeyIf("arxiv", paper.arxiv_id)
        \o KeyIf("title", paper.title_norm)

dedup_keys(paper) ==
    IF identifier_keys(paper) # <<>> THEN identifier_keys(paper)
    ELSE <<fallback_key(paper)>>

\* (a variant of better_text) a candidate of the same length wins as well.
better_text_or_equal(current, candidate) ==
    IF ~Truthy(candidate) THEN current
    ELSE IF ~Truthy(current) THEN candidate
    ELSE IF Len(candidate) >= Len(current) THEN candidate ELSE current

better_text(current, candidate) ==
    IF ~Truthy(candidate) THEN current
    ELSE IF ~Truthy(current) THEN candidate
    ELSE IF Len(candidate) > Len(current) THEN candidate ELSE current

OrEmpty(text) == IF Truthy(text) THEN text ELSE <<>>

\* (a variant of merge_year) the later year wins.
merge_year_latest(target_year, incoming_year) ==
    IF target_year = NoYear /\ incoming_year # NoYear THEN incoming_year
    ELSE IF target_year # NoYear /\ incoming_year # NoYear
         THEN Max(target_year, incoming_year)
    ELSE target_year

merge_year(target_year, incoming_year) ==
    IF target_year = NoYear /\ incoming_year # NoYear THEN incoming_year
    ELSE IF target_year # NoYear /\ incoming_year # NoYear
         THEN Min(target_year, incoming_year)
    ELSE target_year

\* (a variant of first_write) the incoming value replaces the one held.
last_write(target_value, incoming_value) ==
    IF Truthy(incoming_value) THEN incoming_value ELSE target_value

first_write(target_value, incoming_value) ==
    IF ~Truthy(target_value) /\ Truthy(incoming_value) THEN incoming_value
    ELSE target_value

RECURSIVE merge_source_ids(_, _)
merge_source_ids(source_ids, incoming) ==
    IF incoming = <<>> THEN source_ids
    ELSE IF \E i \in 1..Len(source_ids) : source_ids[i][1] = Head(incoming)[1]
         THEN merge_source_ids(source_ids, Tail(incoming))
         ELSE merge_source_ids(Append(source_ids, Head(incoming)), Tail(incoming))

merge_papers(target, incoming) ==
    with_title_norm(
        [target EXCEPT
           !.title = OrEmpty(better_text(target.title, incoming.title)),
           !.venue = OrEmpty(better_text(target.venue, incoming.venue)),
           !.abstract = better_text(target.abstract, incoming.abstract),
           !.year = merge_year(coerce_year(target.year), coerce_year(incoming.year)),
           !.doi = first_write(target.doi, incoming.doi),
           !.arxiv_id = first_write(target.arxiv_id, incoming.arxiv_id),
           !.url = first_write(target.url, incoming.url),
           !.authors = append_unique(target.authors, incoming.authors),
           !.pdf_urls = append_unique(target.pdf_urls, incoming.pdf_urls),
           !.sources = append_unique(target.sources, incoming.sources),
           !.source_ids = merge_source_ids(target.source_ids, incoming.source_ids)])

\* The resolver's state: the locals of deduplicate_papers.
EmptyResolver ==
    [records |-> <<>>, key_to_record |-> <<>>, next_record_id |-> 1]

\* {key_to_record[key] for key in keys if key in key_to_record and ... in records}
matched_ids(st, keys) ==
    {st.key_to_record[keys[i]] :
        i \in {j \in 1..Len(keys) :
                  /\ keys[j] \in DOMAIN st.key_to_record
                  /\ st.key_to_record[keys[j]] \in DOMAIN st.records}}

MinOf(ids) == CHOOSE i \in ids : \A j \in ids : i <= j

\* (a variant of absorb) the absorbed cluster's keys are left pointing at it.
absorb_no_repoint(st, record_id, other_id) ==
    [st EXCEPT
       !.records = [i \in DOMAIN st.records \ {other_id} |->
                      IF i = record_id
                      THEN merge_papers(st.records[record_id], st.records[other_id])
                      ELSE st.records[i]]]

\* One turn of "for other_id in sorted(matched)": fold other_id into record_id,
\* drop it from records and repoint every key it owned.
absorb(st, record_id, other_id) ==
    [st EXCEPT
       !.records = [i \in DOMAIN st.records \ {other_id} |->
                      IF i = record_id
                      THEN merge_papers(st.records[record_id], st.records[other_id])
                      ELSE st.records[i]],
       !.key_to_record = [k \in DOMAIN st.key_to_record |->
                            IF st.key_to_record[k] = other_id THEN record_id
                            ELSE st.key_to_record[k]]]

\* (a variant of absorb_all) the other matched clusters are left alone.
absorb_none(st, record_id, others) == st

MaxOf(ids) == CHOOSE i \in ids : \A j \in ids : i >= j

\* (a variant of absorb_all) the matched clusters are absorbed from the greatest
\* id down.
RECURSIVE absorb_all_descending(_, _, _)
absorb_all_descending(st, record_id, others) ==
    IF others = {} THEN st
    ELSE absorb_all_descending(absorb(st, record_id, MaxOf(others)), record_id,
                               others \ {MaxOf(others)})

RECURSIVE absorb_all(_, _, _)
absorb_all(st, record_id, others) ==
    IF others = {} THEN st
    ELSE absorb_all(absorb(st, record_id, MinOf(others)), record_id,
                    others \ {MinOf(others)})

point_keys(st, keys, record_id) ==
    [st EXCEPT !.key_to_record =
        [k \in DOMAIN st.key_to_record \cup {keys[i] : i \in 1..Len(keys)} |->
            IF \E i \in 1..Len(keys) : keys[i] = k THEN record_id
            ELSE st.key_to_record[k]]]

\* (a variant of index_keys) title keys are not indexed.
index_without_titles(st, record_id) ==
    point_keys(st, SelectSeq(dedup_keys(st.records[record_id]),
                             LAMBDA key : key[1] # "title"),
               record_id)

\* (a variant of index_keys) only the first key of the cluster is indexed.
index_first_key(st, record_id) ==
    point_keys(st, SubSeq(dedup_keys(st.records[record_id]), 1, 1), record_id)

\* for key in dedup_keys(records[record_id]): key_to_record[key] = record_id
index_keys(st, record_id) == point_keys(st, dedup_keys(st.records[record_id]), record_id)

\* not matched: records[next_record_id] = canonical; next_record_id += 1
new_cluster(st, canonical) ==
    [st EXCEPT
       !.records = [i \in DOMAIN st.records \cup {st.next_record_id} |->
                      IF i = st.next_record_id THEN canonical ELSE st.records[i]],
       !.next_record_id = st.next_record_id + 1]

\* matched: the smallest id absorbs the others, then takes the incoming record
merge_into(st, record_id, canonical) ==
    [st EXCEPT !.records[record_id] = merge_papers(st.records[record_id], canonical)]

resolve_matched(st, canonical, matched) ==
    IF matched = {}
    THEN index_keys(new_cluster(st, canonical), st.next_record_id)
    ELSE index_keys(merge_into(absorb_all(st, MinOf(matched), matched \ {MinOf(matched)}),
                               MinOf(matched), canonical),
                    MinOf(matched))

resolve_canonical(st, canonical) ==
    resolve_matched(st, canonical, matched_ids(st, dedup_keys(canonical)))

\* (a variant of resolve) a record without a title is resolved like any other.
resolve_untitled_too(st, raw) == resolve_canonical(st, canonicalize_raw_paper(raw))

\* The body of the loop over raw_papers, for one raw record.
resolve(st, raw) ==
    IF canonical_title(raw) = <<>> THEN st
    ELSE resolve_canonical(st, canonicalize_raw_paper(raw))

\* sorted() of the source names the inputs use.
SourceNames == <<<<"crossref">>, <<"openalex">>, <<"semantic_scholar">>, <<"unknown">>>>

SourceRank(source) == CHOOSE i \in 1..Len(SourceNames) : SourceNames[i] = source

\* dict(sorted(source_ids.items()))
sorted_source_ids(source_ids) ==
    SortSeq(source_ids, LAMBDA a, b : SourceRank(a[1]) < SourceRank(b[1]))

\* (a variant of paper_id_of) the arXiv id is preferred to the DOI.
paper_id_arxiv_first(paper) ==
    IF Truthy(paper.arxiv_id) THEN <<"arxiv:">> \o paper.arxiv_id
    ELSE IF Truthy(paper.doi) THEN <<"doi:">> \o paper.doi
    ELSE <<"title:">> \o Sha1(OrEmpty(paper.title_norm))

paper_id_of(paper) ==
    IF Truthy(paper.doi) THEN <<"doi:">> \o paper.doi
    ELSE IF Truthy(paper.arxiv_id) THEN <<"arxiv:">> \o paper.arxiv_id
    ELSE <<"title:">> \o Sha1(OrEmpty(paper.title_norm))

\* One turn of the output loop: the paper as emitted (title_norm popped).
finalize_paper(paper) ==
    [paper_id |-> paper_id_of(paper),
     title |-> paper.title,
     year |-> paper.year,
     venue |-> paper.venue,
     authors |-> normalize_authors(paper.authors),
     abstract |-> paper.abstract,
     doi |-> paper.doi,
     arxiv_id |-> paper.arxiv_id,
     url |-> paper.url,
     pdf_urls |-> append_unique(paper.pdf_urls, <<>>),
     sources |-> append_unique(paper.sources, <<>>),
     source_ids |-> sorted_source_ids(paper.source_ids)]

\* sorted(records)
RECURSIVE SortedIds(_)
SortedIds(ids) ==
    IF ids = {} THEN <<>> ELSE <<MinOf(ids)>> \o SortedIds(ids \ {MinOf(ids)})

finalize_in_order(recs, ids) == [i \in 1..Len(ids) |-> finalize_paper(recs[ids[i]])]

\* (a variant of finalize) the newest cluster comes first.
finalize_newest_first(recs) ==
    [i \in 1..Cardinality(DOMAIN recs) |->
        finalize_paper(recs[SortedIds(DOMAIN recs)[Cardinality(DOMAIN recs) + 1 - i]])]

\* for record_id in sorted(records): ... output.append(paper)
finalize(recs) == finalize_in_order(recs, SortedIds(DOMAIN recs))

RECURSIVE resolve_all(_, _)
resolve_all(st, raws) ==
    IF raws = <<>> THEN st ELSE resolve_all(resolve(st, Head(raws)), Tail(raws))

\* deduplicate_papers as a function of its argument.
deduplicate_papers(raws) == finalize(resolve_all(EmptyResolver, raws).records)

\* ------------------------------------------------------------------ inputs

RawPaper(title, year, venue, authors, abstract, doi, arxiv_id, url, source, source_id) ==
    [title |-> title, year |-> year, venue |-> venue, authors |-> authors,
     abstract |-> abstract, doi |-> doi, arxiv_id |-> arxiv_id, url |-> url,
     pdf_urls |-> IF Truthy(url) /\ Len(url) > 3 THEN <<url>> ELSE <<>>,
     source |-> source, source_id |-> source_id]

Al == <<"A", "l">>

AL == <<"A", "L">>

Bo == <<"B", "o">>

\* The raw records the fetchers can hand to deduplicate_papers.
Catalog == <<
    \* 1..3: one paper seen three times, titles that normalise to "ab"
    RawPaper(<<"a", "b">>, 2021, <<"v">>, <<Al>>, <<"x">>,
             <<"10.1/a">>, None, None, <<"openalex">>, <<"W1">>),
    RawPaper(<<"a", "b", "!">>, 2023, <<"v", "v">>, <<AL, Bo>>, <<"<b>", "x", "y">>,
             None, None, None, <<"semantic_scholar">>, <<"S1">>),
    RawPaper(<<"A", "b", " ", " ", "!", "!">>, 2022, <<"v", "v", "v">>, <<Bo>>,
             <<"x", "&amp;", "y">>,
             <<"DOI:", "10.1/A">>, <<"arXiv:", "2302.00002">>, None, <<"crossref">>, None),
    \* 4: the same DOI under a longer, different title
    RawPaper(<<"a", "b", "c", "d">>, 2020, <<>>, <<>>, None,
             <<"https://doi.org/", "10.1/A">>, None, None, <<"crossref">>, <<"C4">>),
    \* 5..7: a DOI-only record, an arXiv-only record and the record that joins them
    RawPaper(<<"p">>, 2019, <<"v", "v", "v", "v">>, <<>>, None,
             <<"10.1/b">>, None, None, <<"crossref">>, <<"C5">>),
    RawPaper(<<"q", " ", " ", "q">>, 2018, <<>>, <<Al>>, <<"x", "y", "x", "y">>,
             None, <<"arXiv:", "2301.00001", "v2">>, None, <<"openalex">>, <<"W6">>),
    RawPaper(<<"r", "e_acute", "r", "r", "r">>, NoYear, <<>>, <<>>, None,
             <<"10.1/b">>, None, <<"https://", "arxiv.org/abs/", "2301.00001">>,
             <<"semantic_scholar">>, None),
    \* 8: no title
    RawPaper(<<" ", "\t">>, 2021, <<"v">>, <<>>, None,
             <<"10.1/a">>, None, None, <<"openalex">>, <<"W8">>),
    \* 9: a title that normalises to nothing, and no identifier
    RawPaper(<<"!", "!">>, 1899, <<>>, <<>>, None,
             <<"11.1/a">>, None, None, None, None),
    \* 10, 11: two papers behind one landing page that is not an arXiv page
    RawPaper(<<"c", "d">>, 2017, <<>>, <<>>, None,
             None, None, <<"https://", "x.org/", "p1">>, <<"openalex">>, <<"W10">>),
    RawPaper(<<"d", "c", "d">>, 2016, <<>>, <<>>, None,
             None, None, <<"https://", "X.ORG/", "p1", ".pdf">>, <<"openalex">>, <<"W11">>),
    \* 12: the title of 1 under another DOI
    RawPaper(<<"a", "b">>, 2021, <<"v">>, <<>>, None,
             <<"10.1/b">>, None, None, <<"openalex">>, <<"W12">>),
    \* 13: another title that normalises to nothing
    RawPaper(<<"u4e2d", "!">>, NoYear, <<>>, <<>>, None,
             None, None, None, None, None),
    \* 14: the title of 10, the DOI of 3 and the arXiv id of 6
    RawPaper(<<"c", "d">>, 2015, <<>>, <<Bo>>, None,
             <<"10.1/a">>, <<"arXiv:", "2301.00001">>, <<"https://", "x.org/", "p2">>,
             <<"crossref">>, <<"C14">>),
    \* 15, 16: the title missing, the title empty
    RawPaper(None, 2021, <<"v">>, <<Al>>, <<"x">>,
             <<"10.1/a">>, None, None, <<"crossref">>, <<"C15">>),
    RawPaper(<<>>, 2021, <<"v">>, <<Al>>, <<"x">>,
             <<"10.1/a">>, <<"arXiv:", "2301.00001">>, None, <<"openalex">>, <<"W16">>)
>>

\* ----------------------------------------------------- deduplicate_papers

VARIABLES
    consumed,        \* indices (into Catalog) of the raw_papers iterated so far
    records,         \* cluster id -> cluster
    key_to_record,   \* join key -> cluster id
    next_record_id,
    folded,          \* history: cluster id -> the positions of consumed folded into it
    phase,           \* "resolving" in the loop, "finalized" after the output loop
    output           \* the list deduplicate_papers returns

vars == <<consumed, records, key_to_record, next_record_id, folded, phase, output>>

VARIABLES
    retries,         \* self.retries
    min_interval,    \* self.min_interval
    since_last,      \* host -> time.monotonic() - self._last_by_host[host]
    pc,              \* where request() is: idle, throttle, urlopen, sleep, returned, raised
    host,            \* the host of the url being requested
    attempt,         \* the loop variable of request()
    sleep_for,       \* the retry sleep about to be taken
    status,          \* the status returned or raised ("URLError" for a transport error)
    outcomes,        \* history: what each attempt of this call ended in
    sleeps,          \* history: the retry sleeps of this call
    retry_afters,    \* history: the Retry-After header behind each retry sleep of this call
    gap              \* history: while an attempt is under way, the time between its
                     \* issue and the issue before it to the same host (else NoGap)

client_vars ==
    <<retries, min_interval, since_last, pc, host, attempt, sleep_for, status,
      outcomes, sleeps, retry_afters, gap>>

NoGap == -1

VARIABLES
    args,                  \* the parsed command line and what the machine offers
    main_pc,               \* where main is
    exit_code,             \* what main returned (NoExit while it runs)
    network_used,          \* history: an HTTP request may have been issued
    source_index,          \* position in source_functions
    invoked,               \* history: the fetchers called, in order
    raw_papers,            \* Catalog indices of the raw papers collected
    deduped_papers,        \* the clusters main holds after deduplicate_papers
    download_index,        \* position of download_pdfs in papers
    download_outcomes,     \* history: how each paper of download_pdfs fared
    failed_downloads,
    failed_mineru_parses,
    written                \* the catalogs written: none, then the rows of papers.jsonl / papers.csv

main_vars ==
    <<args, main_pc, exit_code, network_used, source_index, invoked, raw_papers,
      deduped_papers, download_index, download_outcomes, failed_downloads,
      failed_mineru_parses, written>>

VARIABLES
    fn_called,             \* the function last called on its own ("none" at first)
    fn_input,              \* what it was given
    fn_result              \* what it returned

fn_vars == <<fn_called, fn_input, fn_result>>

\* collect_all_sources seen page by page: its locals and those of the fetcher at
\* work, with the history of the requests and of the fetchers' ends.
VARIABLE fetch

all_vars == <<vars, client_vars, main_vars, fn_vars, fetch>>

\* What a step of the resolver, of the client, of main, of a function, of the
\* collection leaves alone.
beside_resolver == <<client_vars, main_vars, fn_vars, fetch>>

beside_client == <<vars, main_vars, fn_vars, fetch>>

beside_main == <<vars, client_vars, fn_vars, fetch>>

beside_fn == <<vars, client_vars, main_vars, fetch>>

beside_fetch == <<vars, client_vars, main_vars, fn_vars>>

\* Before collect_all_sources is called.
IdleFetch ==
    [pc |-> "idle", max_per_source |-> 1, available |-> 0, keeps |-> "all",
     source_index |-> 1, papers |-> <<>>, position |-> 0, requests |-> <<>>,
     raw_papers |-> <<>>, ends |-> <<>>]

NoExit == -1

\* No catalog has been written.
NotWritten == <<>>

\* source_functions of collect_all_sources
SourceFunctions == <<"OpenAlex", "Crossref", "Semantic Scholar", "OpenReview">>

\* --years after parse_csv_list: a block is one year, a range "b-e", or text
\* that int() refuses.
OneYear(y) == [kind |-> "year", begin |-> y, end |-> y]

YearRange(b, e) == [kind |-> "range", begin |-> b, end |-> e]

NotANumber == [kind |-> "text", begin |-> 0, end |-> 0]

\* The command line's defaults (parse_args), on a machine that has MinerU.
DefaultArgs ==
    [max_per_source |-> 100, min_pdf_bytes |-> 10000, mineru_timeout |-> 900,
     timeout |-> 2000, retries |-> 4, min_interval |-> 100, years |-> <<>>,
     download_pdf |-> FALSE, mineru_found |-> TRUE]

Resolver ==
    [records |-> records, key_to_record |-> key_to_record,
     next_record_id |-> next_record_id]

\* No client is at work while the papers are deduplicated: main built it with
\* the command line's defaults, and collect_all_sources has returned.
Init ==
    /\ consumed = <<>>
    /\ records = EmptyResolver.records
    /\ key_to_record = EmptyResolver.key_to_record
    /\ next_record_id = EmptyResolver.next_record_id
    /\ folded = <<>>
    /\ phase = "resolving"
    /\ output = <<>>
    /\ retries = 4
    /\ min_interval = 100
    /\ since_last = <<>>
    /\ pc = "idle"
    /\ host = "none"
    /\ attempt = 0
    /\ sleep_for = 0
    /\ status = "none"
    /\ outcomes = <<>>
    /\ sleeps = <<>>
    /\ retry_afters = <<>>
    /\ gap = NoGap
    /\ args = DefaultArgs
    /\ main_pc = "deduplicate"
    /\ exit_code = NoExit
    /\ network_used = TRUE
    /\ source_index = 5
    /\ invoked = SourceFunctions
    /\ raw_papers = <<>>
    /\ deduped_papers = <<>>
    /\ download_index = 0
    /\ download_outcomes = <<>>
    /\ failed_downloads = <<>>
    /\ failed_mineru_parses = <<>>
    /\ written = NotWritten
    /\ fn_called = "none"
    /\ fn_input = <<>>
    /\ fn_result = <<>>
    /\ fetch = IdleFetch

\* What the loop body does to the history variable.
fold_matched(hist, st, pos, matched) ==
    IF matched = {}
    THEN [id \in DOMAIN hist \cup {st.next_record_id} |->
             IF id = st.next_record_id THEN <<pos>> ELSE hist[id]]
    ELSE [id \in (DOMAIN hist \ matched) \cup {MinOf(matched)} |->
             IF id = MinOf(matched)
             THEN Flatten([k \in 1..Cardinality(matched) |->
                              hist[SortedIds(matched)[k]]]) \o <<pos>>
             ELSE hist[id]]

fold(hist, st, i, pos) ==
    IF canonical_title(Catalog[i]) = <<>> THEN hist
    ELSE fold_matched(hist, st, pos,
                      matched_ids(st, dedup_keys(canonicalize_raw_paper(Catalog[i]))))

\* for raw in raw_papers: ... (one iteration)
ResolveRaw(i) ==
    /\ phase = "resolving"
    /\ Len(consumed) < MaxPapers
    /\ \E st \in {resolve(Resolver, Catalog[i])} :
          /\ records' = st.records
          /\ key_to_record' = st.key_to_record
          /\ next_record_id' = st.next_record_id
    /\ folded' = fold(folded, Resolver, i, Len(consumed) + 1)
    /\ consumed' = Append(consumed, i)
    /\ UNCHANGED <<phase, output>>
    /\ UNCHANGED beside_resolver

\* The loop is over; build and return the output list.
Finalize ==
    /\ phase = "resolving"
    /\ output' = finalize(records)
    /\ phase' = "finalized"
    /\ UNCHANGED <<consumed, records, key_to_record, next_record_id, folded>>
    /\ UNCHANGED beside_resolver

Next ==
    \/ \E i \in 1..Len(Catalog) : ResolveRaw(i)
    \/ Finalize

Spec == Init /\ [][Next]_all_vars

\* ---------------------------------------------------------- PoliteHttpClient

\* (a variant that also retries 404)
RetryableAnd404 == {404, 408, 425, 429, 500, 502, 503, 504}

RETRYABLE_STATUS_CODES == {408, 425, 429, 500, 502, 503, 504}

\* The statuses urlopen raises HTTPError for in the model.
HttpErrorCodes == RETRYABLE_STATUS_CODES \cup {403, 404}

Hosts == {"api.openalex.org", "api.crossref.org"}

\* --min-interval, in hundredths of a second (main refuses a negative one).
MinIntervals == {0, 100, 600}

\* How long one urlopen can take.
Elapsed == {0, 150}

\* random.uniform(0, 0.35): the least and the greatest value.
Jitters == {0, 35}

\* The Retry-After header of an error response: none, "Retry-After: 5",
\* "Retry-After: 0", "Retry-After: <an HTTP-date five seconds ahead>" ("soon"),
\* and the header named in lower case as the server sent it.
RetryAfterHeaders == {"absent", "5", "0", "soon", "retry-after: 5"}

\* response_headers.get("Retry-After"): the dict keeps the names as they were
\* sent and is looked up by the exact name.
RetryAfterGet(header) ==
    IF header \in {"absent", "retry-after: 5"} THEN None ELSE <<header>>

\* float(retry_after), in hundredths; "soon" raises ValueError.
RetryAfterParses(header) == header \in {"5", "0"}

RetryAfterSeconds(header) == IF header = "5" THEN 500 ELSE 0

Pow2(n) == IF n = 0 THEN 1 ELSE IF n = 1 THEN 2 ELSE IF n = 2 THEN 4 ELSE 8

\* (a variant of backoff_sleep) the backoff does not grow.
backoff_flat(interval, nth, jitter) == Max(interval, 90 + jitter)

\* backoff = 0.9 * (2 ** (attempt - 1)); max(min_interval, backoff + jitter)
backoff_sleep(interval, nth, jitter) ==
    Max(interval, 90 * Pow2(nth - 1) + jitter)

\* _retry_sleep(attempt, response_headers); a transport error passes no
\* headers ("absent").
retry_sleep(interval, nth, header, jitter) ==
    IF RetryAfterGet(header) # None /\ RetryAfterParses(header)
    THEN Max(interval, RetryAfterSeconds(header))
    ELSE backoff_sleep(interval, nth, jitter)

\* (a variant that gives up one attempt early)
retries_http_error_early(code, nth, limit) ==
    code \in RETRYABLE_STATUS_CODES /\ nth + 1 < limit

\* (a variant that retries once more)
retries_transport_error_once_more(nth, limit) == nth <= limit

\* status_code in RETRYABLE_STATUS_CODES and attempt < self.retries
retries_http_error(code, nth, limit) ==
    code \in RETRYABLE_STATUS_CODES /\ nth < limit

\* if attempt < self.retries (URLError, socket.timeout, TimeoutError)
retries_transport_error(nth, limit) == nth < limit

\* Time d goes by: every host's last request is d further back.
later(ages, d) == [h \in DOMAIN ages |-> Min(ages[h] + d, Horizon)]

\* (a variant of throttle_wait) _throttle never sleeps.
throttle_no_wait(ages, h, interval) == 0

\* How long _throttle sleeps: the rest of min_interval since the host's last request.
throttle_wait(ages, h, interval) ==
    IF h \in DOMAIN ages THEN Max(interval - ages[h], 0) ELSE 0

\* History only: how long ago the host's last stamp was when the new one is made.
since_stamp(ages, h) == IF h \in DOMAIN ages THEN ages[h] ELSE NoGap

\* self._last_by_host[host] = time.monotonic()
stamped(ages, h) == [g \in DOMAIN ages \cup {h} |-> IF g = h THEN 0 ELSE ages[g]]

\* History only: the kind of failure an HTTPError of this status is recorded as.
failure_kind(code) ==
    IF code \in {408, 425, 429, 500, 502, 503, 504} THEN "retryable" ELSE "fatal"

\* A client as main builds it (main refuses --retries below 1), before any
\* paper is deduplicated.
ClientInit ==
    /\ consumed = <<>>
    /\ records = EmptyResolver.records
    /\ key_to_record = EmptyResolver.key_to_record
    /\ next_record_id = EmptyResolver.next_record_id
    /\ folded = <<>>
    /\ phase = "resolving"
    /\ output = <<>>
    /\ retries \in 1..MaxRetries
    /\ min_interval \in MinIntervals
    /\ since_last = <<>>
    /\ pc = "idle"
    /\ host = "none"
    /\ attempt = 0
    /\ sleep_for = 0
    /\ status = "none"
    /\ outcomes = <<>>
    /\ sleeps = <<>>
    /\ retry_afters = <<>>
    /\ gap = NoGap
    /\ args = DefaultArgs
    /\ main_pc = "collect"
    /\ exit_code = NoExit
    /\ network_used = FALSE
    /\ source_index = 1
    /\ invoked = <<>>
    /\ raw_papers = <<>>
    /\ deduped_papers = <<>>
    /\ download_index = 0
    /\ download_outcomes = <<>>
    /\ failed_downloads = <<>>
    /\ failed_mineru_parses = <<>>
    /\ written = NotWritten
    /\ fn_called = "none"
    /\ fn_input = <<>>
    /\ fn_result = <<>>
    /\ fetch = IdleFetch

\* request(base_url, ...) is called: the first turn of the loop begins.
StartRequest(h) ==
    /\ pc \in {"idle", "returned", "raised"}
    /\ host' = h
    /\ attempt' = 1
    /\ pc' = "throttle"
    /\ status' = "none"
    /\ outcomes' = <<>>
    /\ sleeps' = <<>>
    /\ retry_afters' = <<>>
    /\ UNCHANGED <<retries, min_interval, since_last, sleep_for, gap>>
    /\ UNCHANGED beside_client

\* self._throttle(url)
Throttle ==
    /\ pc = "throttle"
    /\ since_last' = stamped(later(since_last, throttle_wait(since_last, host, min_interval)),
                             host)
    /\ gap' = since_stamp(later(since_last, throttle_wait(since_last, host, min_interval)),
                           host)
    /\ pc' = "urlopen"
    /\ UNCHANGED <<retries, min_interval, host, attempt, sleep_for, status, outcomes, sleeps,
                   retry_afters>>
    /\ UNCHANGED beside_client

\* urlopen returns a response: request returns it.
ReceiveResponse(d) ==
    /\ pc = "urlopen"
    /\ since_last' = later(since_last, d)
    /\ status' = "200"
    /\ outcomes' = Append(outcomes, "ok")
    /\ pc' = "returned"
    /\ gap' = NoGap
    /\ UNCHANGED <<retries, min_interval, host, attempt, sleep_for, sleeps, retry_afters>>
    /\ UNCHANGED beside_client

\* except error.HTTPError
ReceiveHttpError(d, code, header, jitter) ==
    /\ pc = "urlopen"
    /\ since_last' = later(since_last, d)
    /\ outcomes' = Append(outcomes, failure_kind(code))
    /\ IF retries_http_error(code, attempt, retries)
       THEN /\ sleep_for' = retry_sleep(min_interval, attempt, header, jitter)
            /\ retry_afters' = Append(retry_afters, header)
            /\ pc' = "sleep"
            /\ UNCHANGED status
       ELSE /\ status' = ToString(code)
            /\ pc' = "raised"
            /\ UNCHANGED <<sleep_for, retry_afters>>
    /\ gap' = NoGap
    /\ UNCHANGED <<retries, min_interval, host, attempt, sleeps>>
    /\ UNCHANGED beside_client

\* except (error.URLError, socket.timeout, TimeoutError)
TransportError(d, jitter) ==
    /\ pc = "urlopen"
    /\ since_last' = later(since_last, d)
    /\ outcomes' = Append(outcomes, "transport")
    /\ IF retries_transport_error(attempt, retries)
       THEN /\ sleep_for' = retry_sleep(min_interval, attempt, "absent", jitter)
            /\ retry_afters' = Append(retry_afters, "absent")
            /\ pc' = "sleep"
            /\ UNCHANGED status
       ELSE /\ status' = "URLError"
            /\ pc' = "raised"
            /\ UNCHANGED <<sleep_for, retry_afters>>
    /\ gap' = NoGap
    /\ UNCHANGED <<retries, min_interval, host, attempt, sleeps>>
    /\ UNCHANGED beside_client

\* time.sleep(sleep_for); continue
RetrySleep ==
    /\ pc = "sleep"
    /\ since_last' = later(since_last, sleep_for)
    /\ sleeps' = Append(sleeps, sleep_for)
    /\ attempt' = attempt + 1
    /\ pc' = "throttle"
    /\ UNCHANGED <<retries, min_interval, host, sleep_for, status, outcomes, retry_afters, gap>>
    /\ UNCHANGED beside_client

ClientNext ==
    \/ \E h \in Hosts : StartRequest(h)
    \/ Throttle
    \/ \E d \in Elapsed : ReceiveResponse(d)
    \/ \E d \in Elapsed, code \in HttpErrorCodes, header \in RetryAfterHeaders,
          jitter \in Jitters : ReceiveHttpError(d, code, header, jitter)
    \/ \E d \in Elapsed, jitter \in Jitters : TransportError(d, jitter)
    \/ RetrySleep

ClientSpec == ClientInit /\ [][ClientNext]_all_vars

\* A call of request() that has begun goes on: _throttle's sleep ends, urlopen
\* returns or raises within its timeout, and the retry sleep ends.
ClientStep ==
    \/ Throttle
    \/ \E d \in Elapsed : ReceiveResponse(d)
    \/ \E d \in Elapsed, code \in HttpErrorCodes, header \in RetryAfterHeaders,
          jitter \in Jitters : ReceiveHttpError(d, code, header, jitter)
    \/ \E d \in Elapsed, jitter \in Jitters : TransportError(d, jitter)
    \/ RetrySleep

FairClientSpec == ClientSpec /\ WF_all_vars(ClientStep)


\* ------------------------------------------------------------------- main

\* The --years values tried.
YearTexts ==
    {<<>>,
     <<OneYear(2020)>>,
     <<YearRange(2020, 2021), OneYear(1900)>>,
     <<YearRange(2021, 2020)>>,
     <<OneYear(1899)>>,
     <<YearRange(2100, 2101)>>,
     <<OneYear(2020), NotANumber>>}

\* The command lines tried: every numeric option at its default and at the
\* first value main refuses.
ArgsTried ==
    [max_per_source : {0, 100}, min_pdf_bytes : {0, 10000}, mineru_timeout : {-1, 900},
     timeout : {0, 2000}, retries : {0, 4}, min_interval : {-1, 0}, years : YearTexts,
     download_pdf : BOOLEAN, mineru_found : BOOLEAN]

\* What each fetcher returns when it does not raise (Catalog indices).
FetchResults == <<<<1, 10>>, <<5>>, <<2>>, <<6>>>>

\* int(begin_text), int(end_text), int(block) raise ValueError
block_is_text(block) == block.kind = "text"

\* if begin_year > end_year: raise ValueError
block_is_reversed(block) == block.kind = "range" /\ block.begin > block.end

\* The years a block adds.
block_years(block) == block.begin..block.end

parsed_years(text) == UNION {block_years(text[k]) : k \in 1..Len(text)}

\* invalid = sorted(year for year in years if year < 1900 or year > 2100)
years_out_of_range(years) == \E year \in years : year < 1900 \/ year > 2100

\* parse_years raises ValueError
parse_years_raises(text) ==
    \/ \E k \in 1..Len(text) : block_is_text(text[k]) \/ block_is_reversed(text[k])
    \/ years_out_of_range(parsed_years(text))

\* ensure_positive_int
not_positive(value) == value <= 0

\* (a variant of retries_refused) --retries 0 is let through
retries_refused_below_zero(a) == a.retries < 0

\* if args.retries <= 0: raise ValueError
retries_refused(a) == a.retries <= 0

\* The try block of main raises ValueError.
invalid_arguments(a) ==
    \/ not_positive(a.max_per_source)
    \/ not_positive(a.min_pdf_bytes)
    \/ not_positive(a.mineru_timeout)
    \/ a.timeout <= 0
    \/ retries_refused(a)
    \/ a.min_interval < 0
    \/ parse_years_raises(a.years)

MainInit ==
    /\ consumed = <<>>
    /\ records = EmptyResolver.records
    /\ key_to_record = EmptyResolver.key_to_record
    /\ next_record_id = EmptyResolver.next_record_id
    /\ folded = <<>>
    /\ phase = "resolving"
    /\ output = <<>>
    /\ retries = 4
    /\ min_interval = 100
    /\ since_last = <<>>
    /\ pc = "idle"
    /\ host = "none"
    /\ attempt = 0
    /\ sleep_for = 0
    /\ status = "none"
    /\ outcomes = <<>>
    /\ sleeps = <<>>
    /\ retry_afters = <<>>
    /\ gap = NoGap
    /\ args \in ArgsTried
    /\ main_pc = "validate"
    /\ exit_code = NoExit
    /\ network_used = FALSE
    /\ source_index = 0
    /\ invoked = <<>>
    /\ raw_papers = <<>>
    /\ deduped_papers = <<>>
    /\ download_index = 0
    /\ download_outcomes = <<>>
    /\ failed_downloads = <<>>
    /\ failed_mineru_parses = <<>>
    /\ written = NotWritten
    /\ fn_called = "none"
    /\ fn_input = <<>>
    /\ fn_result = <<>>
    /\ fetch = IdleFetch

\* try: ensure_positive_int(...) ... years = parse_years(args.years)
\* except ValueError: return 2
Validate ==
    /\ main_pc = "validate"
    /\ IF invalid_arguments(args)
       THEN /\ main_pc' = "exited"
            /\ exit_code' = 2
            /\ UNCHANGED source_index
       ELSE /\ main_pc' = "collect"
            /\ source_index' = 1
            /\ UNCHANGED exit_code
    /\ UNCHANGED <<args, network_used, invoked, raw_papers, deduped_papers, download_index,
                   download_outcomes, failed_downloads, failed_mineru_parses, written>>
    /\ UNCHANGED beside_main

\* (a variant of next_source) a fetcher's exception ends the collection
stop_after_failure(i, raised) == IF raised THEN Len(SourceFunctions) + 1 ELSE i + 1

\* for source_name, fetcher in source_functions: the next turn of the loop,
\* whether the fetcher returned or raised.
next_source(i, raised) == i + 1

\* papers = fetcher(...); raw_papers.extend(papers)
FetcherReturns ==
    /\ main_pc = "collect"
    /\ source_index <= Len(SourceFunctions)
    /\ invoked' = Append(invoked, SourceFunctions[source_index])
    /\ network_used' = TRUE
    /\ raw_papers' = raw_papers \o FetchResults[source_index]
    /\ source_index' = next_source(source_index, FALSE)
    /\ UNCHANGED <<args, main_pc, exit_code, deduped_papers, download_index,
                   download_outcomes, failed_downloads, failed_mineru_parses, written>>
    /\ UNCHANGED beside_main

\* except Exception as exc: logging.warning(...)
FetcherRaises ==
    /\ main_pc = "collect"
    /\ source_index <= Len(SourceFunctions)
    /\ invoked' = Append(invoked, SourceFunctions[source_index])
    /\ network_used' = TRUE
    /\ source_index' = next_source(source_index, TRUE)
    /\ UNCHANGED <<args, main_pc, exit_code, raw_papers, deduped_papers, download_index,
                   download_outcomes, failed_downloads, failed_mineru_parses, written>>
    /\ UNCHANGED beside_main

\* A cluster as main holds it: pdf_path and paper_md_path are not set yet.
without_paths(paper) == paper @@ [pdf_path |-> None, paper_md_path |-> None]

without_paths_all(papers) == [k \in 1..Len(papers) |-> without_paths(papers[k])]

RawsAt(indices) == [k \in 1..Len(indices) |-> Catalog[indices[k]]]

\* if args.download_pdf and deduped_papers:
wants_download(a, papers) == a.download_pdf /\ papers # <<>>

\* return raw_papers; deduped_papers = deduplicate_papers(raw_papers)
Deduplicate ==
    /\ main_pc = "collect"
    /\ source_index > Len(SourceFunctions)
    /\ \E papers \in {without_paths_all(deduplicate_papers(RawsAt(raw_papers)))} :
          /\ deduped_papers' = papers
          /\ main_pc' = IF wants_download(args, papers) THEN "resolve_mineru" ELSE "write"
    /\ UNCHANGED <<args, exit_code, network_used, source_index, invoked, raw_papers,
                   download_index, download_outcomes, failed_downloads,
                   failed_mineru_parses, written>>
    /\ UNCHANGED beside_main

\* resolved_mineru_cmd = resolve_mineru_cmd(...); if not resolved_mineru_cmd: return 2
ResolveMineru ==
    /\ main_pc = "resolve_mineru"
    /\ IF args.mineru_found
       THEN /\ main_pc' = "download"
            /\ download_index' = 1
            /\ UNCHANGED exit_code
       ELSE /\ main_pc' = "exited"
            /\ exit_code' = 2
            /\ UNCHANGED download_index
    /\ UNCHANGED <<args, network_used, source_index, invoked, raw_papers, deduped_papers,
                   download_outcomes, failed_downloads, failed_mineru_parses, written>>
    /\ UNCHANGED beside_main

\* The failure dicts of download_pdf_for_paper and parse_pdf_with_mineru.
failure_of(paper, reason) ==
    [paper_id |-> paper.paper_id, title |-> paper.title, reason |-> reason]

set_path(paper, field, path) == [paper EXCEPT ![field] = path]

\* (a variant of after_download) a paper whose download failed is dropped
drop_failed_download(papers, k) ==
    SubSeq(papers, 1, k - 1) \o SubSeq(papers, k + 1, Len(papers))

\* download_pdf_for_paper returned (None, failure): the paper is left as it is.
after_failed_download(papers, k) == papers

\* paper["pdf_path"] = str(Path("pdfs") / relative_pdf_name)
after_download(papers, k) ==
    [papers EXCEPT ![k] = set_path(papers[k], "pdf_path", <<"pdfs/", papers[k].paper_id>>)]

\* paper["paper_md_path"] = relative_md_path
after_conversion(papers, k) ==
    [papers EXCEPT ![k] = set_path(papers[k], "paper_md_path",
                                   <<"papers/", papers[k].paper_id>>)]

\* One turn of the loop of download_pdfs: no PDF could be fetched.
DownloadFails ==
    /\ main_pc = "download"
    /\ download_index <= Len(deduped_papers)
    /\ network_used' = TRUE
    /\ deduped_papers' = after_failed_download(deduped_papers, download_index)
    /\ failed_downloads' =
          Append(failed_downloads,
                 failure_of(deduped_papers[download_index], "all_methods_failed"))
    /\ download_outcomes' = Append(download_outcomes, "download failed")
    /\ download_index' = download_index + 1
    /\ UNCHANGED <<args, main_pc, exit_code, source_index, invoked, raw_papers,
                   failed_mineru_parses, written>>
    /\ UNCHANGED beside_main

\* One turn of the loop: the PDF was fetched and MinerU failed on it.
ConversionFails ==
    /\ main_pc = "download"
    /\ download_index <= Len(deduped_papers)
    /\ network_used' = TRUE
    /\ deduped_papers' = after_download(deduped_papers, download_index)
    /\ failed_mineru_parses' =
          Append(failed_mineru_parses,
                 failure_of(deduped_papers[download_index], "mineru failed"))
    /\ download_outcomes' = Append(download_outcomes, "conversion failed")
    /\ download_index' = download_index + 1
    /\ UNCHANGED <<args, main_pc, exit_code, source_index, invoked, raw_papers,
                   failed_downloads, written>>
    /\ UNCHANGED beside_main

\* One turn of the loop: the PDF was fetched and converted.
DownloadConverts ==
    /\ main_pc = "download"
    /\ download_index <= Len(deduped_papers)
    /\ network_used' = TRUE
    /\ deduped_papers' = after_conversion(after_download(deduped_papers, download_index),
                                          download_index)
    /\ download_outcomes' = Append(download_outcomes, "converted")
    /\ download_index' = download_index + 1
    /\ UNCHANGED <<args, main_pc, exit_code, source_index, invoked, raw_papers,
                   failed_downloads, failed_mineru_parses, written>>
    /\ UNCHANGED beside_main

\* return failed_downloads, failed_mineru_parses
DownloadsReturn ==
    /\ main_pc = "download"
    /\ download_index > Len(deduped_papers)
    /\ main_pc' = "write"
    /\ UNCHANGED <<args, exit_code, network_used, source_index, invoked, raw_papers,
                   deduped_papers, download_index, download_outcomes, failed_downloads,
                   failed_mineru_parses, written>>
    /\ UNCHANGED beside_main

\* write_jsonl(jsonl_path, deduped_papers); write_csv(...); return 0
WriteCatalog ==
    /\ main_pc = "write"
    /\ written' = <<deduped_papers>>
    /\ main_pc' = "exited"
    /\ exit_code' = 0
    /\ UNCHANGED <<args, network_used, source_index, invoked, raw_papers, deduped_papers,
                   download_index, download_outcomes, failed_downloads,
                   failed_mineru_parses>>
    /\ UNCHANGED beside_main

MainNext ==
    \/ Validate
    \/ FetcherReturns
    \/ FetcherRaises
    \/ Deduplicate
    \/ ResolveMineru
    \/ DownloadFails
    \/ ConversionFails
    \/ DownloadConverts
    \/ DownloadsReturn
    \/ WriteCatalog

MainSpec == MainInit /\ [][MainNext]_all_vars


\* ----------------------------------------------------------- venue filter

normalize_venue(text) ==
    IF ~Truthy(text) THEN <<>>
    ELSE normalize_whitespace(NonAlnumToSpace(LowerAll(AsciiFoldAll(
             [i \in 1..Len(text) |-> Unescape(text[i])]))))

CANONICAL_VENUE_MARKER_PREFIX == "__canonical_venue__:"

\* Group by group, the words a venue must all contain to be the named venue.
CANONICAL_VENUE_TOKEN_RULES(canonical_name) ==
    CASE canonical_name = <<"i", "e", "e", "e", "-", "s", "p">> ->
          {{<<"o", "a", "k", "l", "a", "n", "d">>},
           {<<"i", "e", "e", "e">>, <<"s", "e", "c", "u", "r", "i", "t", "y">>, <<"p", "r", "i", "v", "a", "c", "y">>},
           {<<"s", "y", "m", "p", "o", "s", "i", "u", "m">>, <<"s", "e", "c", "u", "r", "i", "t", "y">>, <<"p", "r", "i", "v", "a", "c", "y">>},
           {<<"i", "e", "e", "e">>, <<"s">>, <<"p">>},
           {<<"i", "e", "e", "e">>, <<"s", "p">>}}
      [] canonical_name = <<"u", "s", "e", "n", "i", "x", "-", "s", "e", "c", "u", "r", "i", "t", "y">> ->
          {{<<"u", "s", "e", "n", "i", "x">>, <<"s", "e", "c", "u", "r", "i", "t", "y">>},
           {<<"u", "s", "e", "n", "i", "x">>, <<"s", "e", "c">>}}
      [] canonical_name = <<"a", "c", "m", "-", "c", "c", "s">> ->
          {{<<"a", "c", "m">>, <<"c", "c", "s">>},
           {<<"c", "c", "s">>},
           {<<"c", "o", "m", "p", "u", "t", "e", "r">>, <<"c", "o", "m", "m", "u", "n", "i", "c", "a", "t", "i", "o", "n", "s">>, <<"s", "e", "c", "u", "r", "i", "t", "y">>}}
      [] canonical_name = <<"n", "d", "s", "s">> ->
          {{<<"n", "d", "s", "s">>},
           {<<"n", "e", "t", "w", "o", "r", "k">>, <<"d", "i", "s", "t", "r", "i", "b", "u", "t", "e", "d">>, <<"s", "y", "s", "t", "e", "m">>, <<"s", "e", "c", "u", "r", "i", "t", "y">>}}
      [] canonical_name = <<"k", "d", "d">> ->
          {{<<"k", "d", "d">>},
           {<<"s", "i", "g", "k", "d", "d">>},
           {<<"k", "n", "o", "w", "l", "e", "d", "g", "e">>, <<"d", "i", "s", "c", "o", "v", "e", "r", "y">>, <<"d", "a", "t", "a">>, <<"m", "i", "n", "i", "n", "g">>}}
      [] OTHER -> {}

canonical_venue_marker(canonical_name) ==
    <<CANONICAL_VENUE_MARKER_PREFIX>> \o canonical_name

parse_canonical_venue_marker(term) ==
    IF term # <<>> /\ Head(term) = CANONICAL_VENUE_MARKER_PREFIX THEN Tail(term)
    ELSE None

\* str.split(): the set of the maximal runs of non-space characters
RECURSIVE split(_, _)
split(text, word) ==
    IF text = <<>> THEN (IF word = <<>> THEN {} ELSE {word})
    ELSE IF IsSpace(Head(text))
         THEN (IF word = <<>> THEN {} ELSE {word}) \cup split(Tail(text), <<>>)
         ELSE split(Tail(text), Append(word, Head(text)))

\* a in b, for two strings
IsSubstring(a, b) ==
    \E i \in 0..(Len(b) - Len(a)) : SubSeq(b, i + 1, i + Len(a)) = a

venue_matches_canonical_alias(venue_tokens, canonical_name) ==
    \E token_group \in CANONICAL_VENUE_TOKEN_RULES(canonical_name) :
        \A token \in token_group : token \in venue_tokens

\* (a variant of plain_term_matches) containment of the term in the venue only
term_in_venue_only(venue, term) == IsSubstring(term, venue)

plain_term_matches(venue, term) ==
    IsSubstring(term, venue) \/ IsSubstring(venue, term)

venue_term_matches(venue, venue_tokens, term) ==
    IF parse_canonical_venue_marker(term) # None
    THEN venue_matches_canonical_alias(venue_tokens, parse_canonical_venue_marker(term))
    ELSE plain_term_matches(venue, term)

\* The year half of paper_passes_filters; years is <<>> for None, <<set>> otherwise.
year_passes(paper, years) ==
    \/ years = <<>>
    \/ /\ coerce_year(paper.year) # NoYear
       /\ coerce_year(paper.year) \in years[1]

venue_passes_normalized(venue, venue_terms) ==
    /\ venue # <<>>
    /\ \E k \in 1..Len(venue_terms) :
           venue_term_matches(venue, split(venue, <<>>), venue_terms[k])

venue_passes(paper, venue_terms) ==
    \/ venue_terms = <<>>
    \/ venue_passes_normalized(normalize_venue(paper.venue), venue_terms)

paper_passes_filters(paper, venue_terms, years) ==
    /\ year_passes(paper, years)
    /\ venue_passes(paper, venue_terms)

\* ------------------------------------------------- functions on their own

\* Venues as the sources spell them, None and the empty string among them.
VenuesTried ==
    {None,
     <<>>,
     <<"C", "C", "S">>,
     <<"A", "C", "M", " ", "C", "C", "S">>,
     <<"a", "c", "c", "s">>,
     <<"c">>,
     <<"I", "E", "E", "E", " ", "S", "&amp;", "P">>,
     <<"i", "e", "e", "e", " ", "s", "p">>,
     <<"N", "D", "S", "S">>,
     <<" ", "-", " ">>}

PlainTermsTried ==
    {<<"c", "c", "s">>,
     <<"a", "c", "m", " ", "c", "c", "s", " ", "2">>,
     <<"n", "d", "s", "s">>,
     <<"i", "e", "e", "e", " ", "s", " ", "p">>,
     <<>>}

CanonicalNamesTried ==
    {<<"a", "c", "m", "-", "c", "c", "s">>, <<"i", "e", "e", "e", "-", "s", "p">>, <<"n", "d", "s", "s">>, <<"x">>}

TermsTried ==
    PlainTermsTried \cup {canonical_venue_marker(n) : n \in CanonicalNamesTried}

\* The lists of requested terms: none, one, two.
TermListsTried ==
    {<<>>} \cup {<<t>> : t \in TermsTried}
           \cup {<<t, u>> : t \in TermsTried, u \in TermsTried}

PaperYearsTried == {NoYear, 2020, 2021}

\* --years absent, a set of one year, a set of none.
YearFiltersTried == {<<>>, <<{2021}>>, <<{}>>}

FnInit ==
    /\ consumed = <<>>
    /\ records = EmptyResolver.records
    /\ key_to_record = EmptyResolver.key_to_record
    /\ next_record_id = EmptyResolver.next_record_id
    /\ folded = <<>>
    /\ phase = "resolving"
    /\ output = <<>>
    /\ retries = 4
    /\ min_interval = 100
    /\ since_last = <<>>
    /\ pc = "idle"
    /\ host = "none"
    /\ attempt = 0
    /\ sleep_for = 0
    /\ status = "none"
    /\ outcomes = <<>>
    /\ sleeps = <<>>
    /\ retry_afters = <<>>
    /\ gap = NoGap
    /\ args = DefaultArgs
    /\ main_pc = "collect"
    /\ exit_code = NoExit
    /\ network_used = FALSE
    /\ source_index = 1
    /\ invoked = <<>>
    /\ raw_papers = <<>>
    /\ deduped_papers = <<>>
    /\ download_index = 0
    /\ download_outcomes = <<>>
    /\ failed_downloads = <<>>
    /\ failed_mineru_parses = <<>>
    /\ written = NotWritten
    /\ fn_called = "none"
    /\ fn_input = <<>>
    /\ fn_result = <<>>
    /\ fetch = IdleFetch

CallPaperPassesFilters ==
    /\ fn_called = "none"
    /\ \E v \in VenuesTried, y \in PaperYearsTried,
          terms \in TermListsTried, years \in YearFiltersTried :
           /\ fn_input' = [paper |-> [venue |-> v, year |-> y],
                           venue_terms |-> terms, years |-> years]
           /\ fn_result' = paper_passes_filters([venue |-> v, year |-> y], terms, years)
    /\ fn_called' = "paper_passes_filters"
    /\ UNCHANGED beside_fn

\* A DOI as a source may spell it: white space, a resolver URL, a scheme, the body.
DoiLeadsTried == {<<>>, <<" ">>}

DoiPrefixesTried ==
    {<<>>, <<"doi:">>, <<"DOI:">>, <<"Doi:">>, <<"doi:", " ">>,
     <<"http://doi.org/">>, <<"https://doi.org/">>, <<"http://dx.doi.org/">>,
     <<"https://dx.doi.org/">>, <<"HTTPS://DOI.ORG/">>,
     <<"https://doi.org/", "doi:">>, <<"doi:", "https://doi.org/">>,
     <<"ftp://doi.org/">>}

DoiBodiesTried == {<<>>, <<"10.1/a">>, <<"10.1/A">>, <<"10.1/b">>, <<"11.1/a">>}

DoiTrailsTried == {<<>>, <<"\t">>}

DoiValuesTried ==
    {None} \cup {lead \o prefix \o body \o trail :
                    lead \in DoiLeadsTried, prefix \in DoiPrefixesTried,
                    body \in DoiBodiesTried, trail \in DoiTrailsTried}

CallNormalizeDoi ==
    /\ fn_called = "none"
    /\ \E raw_doi \in DoiValuesTried :
           /\ fn_input' = raw_doi
           /\ fn_result' = normalize_doi(raw_doi)
    /\ fn_called' = "normalize_doi"
    /\ UNCHANGED beside_fn

\* The caller has taken the result; the next call can be made.
FnReturn ==
    /\ fn_called # "none"
    /\ fn_called' = "none"
    /\ fn_input' = <<>>
    /\ fn_result' = <<>>
    /\ UNCHANGED beside_fn

FnNext ==
    \/ CallPaperPassesFilters
    \/ CallNormalizeDoi
    \/ FnReturn

FnSpec == FnInit /\ [][FnNext]_all_vars

\* ------------------------------------------------------ paged collection

\* per_page = min(200, remaining) of fetch_openalex; rows / limit = min(100,
\* remaining) of the other fetchers.
OpenAlexPerPage == 200

RowsPerRequest == 100

IsPaged(source) == source = "OpenAlex"

page_cap(source) == IF IsPaged(source) THEN OpenAlexPerPage ELSE RowsPerRequest

\* page = 1 / offset = 0
first_position(source) == IF IsPaged(source) THEN 1 ELSE 0

\* remaining = max_per_source - len(papers); per_page = min(cap, remaining)
page_size(f) ==
    Min(page_cap(SourceFunctions[f.source_index]), f.max_per_source - Len(f.papers))

\* The index of the first item the provider is asked for: it serves page p of
\* size n from item (p - 1) * n on, and an offset as given.
page_start(f) ==
    IF IsPaged(SourceFunctions[f.source_index]) THEN (f.position - 1) * page_size(f)
    ELSE f.position

\* The provider's answer: the items from page_start on that it has, at most
\* page_size of them.
page_results(f) ==
    [k \in 1..Max(0, Min(page_size(f), f.available - page_start(f))) |->
        page_start(f) + k - 1]

\* paper_passes_filters on the item, and the parser having made a paper of it
item_passes(f, item) == f.keeps = "all" \/ item % 2 = 1

passing(f, results) == SelectSeq(results, LAMBDA item : item_passes(f, item))

from_source(f, items) == [k \in 1..Len(items) |-> <<f.source_index, items[k]>>]

\* for item in results: ... papers.append(paper); if len(papers) >= max: break
accept(f, papers, results) ==
    papers \o from_source(f, SubSeq(passing(f, results), 1,
                                    Min(Len(passing(f, results)),
                                        f.max_per_source - Len(papers))))

\* page += 1 / offset += rows
next_position(f) ==
    IF IsPaged(SourceFunctions[f.source_index]) THEN f.position + 1
    ELSE f.position + page_size(f)

\* The breaks of the loop and its condition: an empty page, a short page, the
\* quota reached.
loop_ends(f) ==
    \/ page_results(f) = <<>>
    \/ Len(page_results(f)) < page_size(f)
    \/ Len(accept(f, f.papers, page_results(f))) >= f.max_per_source

requested(f) == Append(f.requests, [start |-> page_start(f), size |-> page_size(f)])

\* The next turn of "for source_name, fetcher in source_functions".
turn_to_next(f, raw_papers_now, end) ==
    [f EXCEPT
       !.raw_papers = raw_papers_now,
       !.ends = Append(f.ends, end),
       !.source_index = f.source_index + 1,
       !.papers = <<>>,
       !.requests = <<>>,
       !.position = IF f.source_index < Len(SourceFunctions)
                    THEN first_position(SourceFunctions[f.source_index + 1]) ELSE 0,
       !.pc = IF f.source_index < Len(SourceFunctions) THEN "fetching" ELSE "returned"]

\* (a variant of after_raise) what the fetcher had accepted is kept.
after_raise_keeping(raw_papers_now, papers) == raw_papers_now \o papers

\* except Exception: the fetcher's papers never reach raw_papers.extend
after_raise(raw_papers_now, papers) == raw_papers_now

\* The fetchers keep what they are asked for small enough to be enumerated; the
\* provider has none, fewer than a page, or more than is ever asked for.
QuotasTried == {3, 201}

AvailableTried == {0, 2, 7, 500}

FetchInit ==
    /\ consumed = <<>>
    /\ records = EmptyResolver.records
    /\ key_to_record = EmptyResolver.key_to_record
    /\ next_record_id = EmptyResolver.next_record_id
    /\ folded = <<>>
    /\ phase = "resolving"
    /\ output = <<>>
    /\ retries = 4
    /\ min_interval = 100
    /\ since_last = <<>>
    /\ pc = "idle"
    /\ host = "none"
    /\ attempt = 0
    /\ sleep_for = 0
    /\ status = "none"
    /\ outcomes = <<>>
    /\ sleeps = <<>>
    /\ retry_afters = <<>>
    /\ gap = NoGap
    /\ args = DefaultArgs
    /\ main_pc = "collect"
    /\ exit_code = NoExit
    /\ network_used = FALSE
    /\ source_index = 1
    /\ invoked = <<>>
    /\ raw_papers = <<>>
    /\ deduped_papers = <<>>
    /\ download_index = 0
    /\ download_outcomes = <<>>
    /\ failed_downloads = <<>>
    /\ failed_mineru_parses = <<>>
    /\ written = NotWritten
    /\ fn_called = "none"
    /\ fn_input = <<>>
    /\ fn_result = <<>>
    /\ fetch = IdleFetch

\* collect_all_sources(...) is called.
CollectStart ==
    /\ fetch.pc = "idle"
    /\ \E quota \in QuotasTried, available \in AvailableTried, keeps \in {"all", "odd"} :
          fetch' = [IdleFetch EXCEPT
                      !.pc = "fetching", !.max_per_source = quota,
                      !.available = available, !.keeps = keeps,
                      !.position = first_position(SourceFunctions[1])]
    /\ UNCHANGED beside_fetch

\* One request of the fetcher at work was answered and the loop goes round.
PageFetched ==
    /\ fetch.pc = "fetching"
    /\ ~loop_ends(fetch)
    /\ fetch' = [fetch EXCEPT
                   !.papers = accept(fetch, fetch.papers, page_results(fetch)),
                   !.requests = requested(fetch),
                   !.position = next_position(fetch)]
    /\ UNCHANGED beside_fetch

\* One request was answered and the fetcher returns: raw_papers.extend(papers).
LastPageFetched ==
    /\ fetch.pc = "fetching"
    /\ loop_ends(fetch)
    /\ fetch' = turn_to_next(
                   [fetch EXCEPT !.requests = requested(fetch)],
                   fetch.raw_papers \o accept(fetch, fetch.papers, page_results(fetch)),
                   [outcome |-> "returned",
                    papers |-> accept(fetch, fetch.papers, page_results(fetch)),
                    requests |-> requested(fetch)])
    /\ UNCHANGED beside_fetch

\* client.get_json raises and the fetcher with it.
RequestRaises ==
    /\ fetch.pc = "fetching"
    /\ fetch' = turn_to_next(
                   fetch,
                   after_raise(fetch.raw_papers, fetch.papers),
                   [outcome |-> "raised", papers |-> fetch.papers,
                    requests |-> requested(fetch)])
    /\ UNCHANGED beside_fetch

FetchNext ==
    \/ CollectStart
    \/ PageFetched
    \/ LastPageFetched
    \/ RequestRaises

FetchSpec == FetchInit /\ [][FetchNext]_all_vars

\* ------------------------------------------------------------------ claims

Titled(i) == canonical_title(Catalog[i]) # <<>>

\* The canonical form of each Catalog record.
Canon == [i \in 1..Len(Catalog) |-> canonicalize_raw_paper(Catalog[i])]

KeySet(i) == {identifier_keys(Canon[i])[k] : k \in 1..Len(identifier_keys(Canon[i]))}

ShareKey(i, j) == KeySet(i) \cap KeySet(j) # {}

Positions2 == {pq \in (1..Len(consumed)) \X (1..Len(consumed)) : pq[1] < pq[2]}

TextLen(text) == IF Truthy(text) THEN Len(text) ELSE 0

\* No two titles, venues or abstracts of equal length and no two equal years.
DistinctLengthsAndYears ==
    \A pq \in Positions2 :
        /\ TextLen(Canon[consumed[pq[1]]].title) # TextLen(Canon[consumed[pq[2]]].title)
        /\ TextLen(Canon[consumed[pq[1]]].venue) # TextLen(Canon[consumed[pq[2]]].venue)
        /\ TextLen(Canon[consumed[pq[1]]].abstract)
              # TextLen(Canon[consumed[pq[2]]].abstract)
        /\ Canon[consumed[pq[1]]].year # Canon[consumed[pq[2]]].year

AllTitled == \A p \in 1..Len(consumed) : Titled(consumed[p])

Differ(a, b) == Truthy(a) /\ Truthy(b) /\ a # b

\* Records that share a join key name the same paper the same way: the same
\* normalized title and no two different DOIs, arXiv ids or urls.
SharedKeysAgree ==
    \A pq \in Positions2 :
        ShareKey(consumed[pq[1]], consumed[pq[2]]) =>
            /\ Canon[consumed[pq[1]]].title_norm = Canon[consumed[pq[2]]].title_norm
            /\ ~Differ(Canon[consumed[pq[1]]].doi, Canon[consumed[pq[2]]].doi)
            /\ ~Differ(Canon[consumed[pq[1]]].arxiv_id, Canon[consumed[pq[2]]].arxiv_id)
            /\ ~Differ(Canon[consumed[pq[1]]].url, Canon[consumed[pq[2]]].url)

RawsOf(indices) == [k \in 1..Len(indices) |-> Catalog[indices[k]]]

\* The output of deduplicate_papers on the consumed records in Catalog order.
SortedOutput == deduplicate_papers(RawsOf(SortSeq(consumed, LAMBDA a, b : a < b)))

ClusterSet(out) == {out[k] : k \in 1..Len(out)}

ScalarFields(paper) ==
    [paper_id |-> paper.paper_id, title |-> paper.title, venue |-> paper.venue,
     abstract |-> paper.abstract, year |-> paper.year, doi |-> paper.doi,
     arxiv_id |-> paper.arxiv_id, url |-> paper.url]

ScalarSet(out) == {ScalarFields(out[k]) : k \in 1..Len(out)}

\* C1: titled records with no two titles, venues or abstracts of equal length and
\* no two equal years yield the same number of clusters in whatever order they
\* are resolved (every consumed order is reachable, so agreeing with one fixed
\* order is agreeing with every permutation).
C1_SameNumberOfClusters ==
    (phase = "finalized" /\ AllTitled /\ DistinctLengthsAndYears)
        => Len(output) = Len(SortedOutput)

\* The whole of the same statement: the same clusters, field by field.
OrderIndependent_EveryField ==
    (phase = "finalized" /\ AllTitled /\ DistinctLengthsAndYears)
        => ClusterSet(output) = ClusterSet(SortedOutput)

\* What does hold: when records that share a join key have the same normalized
\* title and no two different DOIs, arXiv ids or urls, every order of resolving
\* yields the same number of clusters with the same paper_id, title, venue,
\* abstract, year, doi, arxiv_id and url.
OrderIndependent_WhenKeysAgree ==
    (phase = "finalized" /\ AllTitled /\ DistinctLengthsAndYears /\ SharedKeysAgree)
        => /\ Len(output) = Len(SortedOutput)
           /\ ScalarSet(output) = ScalarSet(SortedOutput)

OrderIndependent_Reached ==
    /\ phase = "finalized" /\ AllTitled /\ DistinctLengthsAndYears /\ SharedKeysAgree
    /\ Len(consumed) = 3 /\ Len(output) = 1
    /\ consumed[1] > consumed[2]

ClusterOf(pos) == {id \in DOMAIN folded : InSeq(pos, folded[id])}

\* C2: two consumed records with a join key in common are in the same cluster.
C2_TransitiveIdentity ==
    \A pq \in Positions2 :
        (Titled(consumed[pq[1]]) /\ Titled(consumed[pq[2]])
            /\ ShareKey(consumed[pq[1]], consumed[pq[2]]))
        => ClusterOf(pq[1]) = ClusterOf(pq[2])

NumClusters == Cardinality(DOMAIN records)

Seen(i) == \E p \in 1..Len(consumed) : consumed[p] = i

\* C3: resolving a record equal to one already resolved allocates no cluster,
\* and [R, R] is returned as one cluster.
C3_Idempotent ==
    /\ [][\A i \in 1..Len(Catalog) :
              (Seen(i) /\ consumed' = Append(consumed, i))
                  => /\ next_record_id' = next_record_id
                     /\ Cardinality(DOMAIN records') <= NumClusters]_vars
    /\ [](\A i \in 1..Len(Catalog) :
              (Titled(i) /\ consumed = <<i, i>>)
                  => /\ NumClusters = 1
                     /\ phase = "finalized" => Len(output) = 1)

C3_Witness ==
    /\ phase = "finalized" /\ Len(output) = 1
    /\ \E i \in 1..Len(Catalog) : Titled(i) /\ consumed = <<i, i>>

\* A (a DOI, no arXiv id), B (an arXiv id, no DOI), C (both), titles all different.
IsBridge(a, b, c) ==
    /\ Titled(a) /\ Titled(b) /\ Titled(c)
    /\ Truthy(Canon[a].doi) /\ ~Truthy(Canon[a].arxiv_id)
    /\ Truthy(Canon[b].arxiv_id) /\ ~Truthy(Canon[b].doi)
    /\ Canon[c].doi = Canon[a].doi /\ Canon[c].arxiv_id = Canon[b].arxiv_id
    /\ Canon[a].title_norm # Canon[b].title_norm
    /\ Canon[a].title_norm # Canon[c].title_norm
    /\ Canon[b].title_norm # Canon[c].title_norm

BridgeConsumed == Len(consumed) = 3 /\ IsBridge(consumed[1], consumed[2], consumed[3])

\* C4: [A, B, C] ends as one cluster that has A's DOI and B's arXiv id.
C4_Bridging ==
    BridgeConsumed =>
        /\ NumClusters = 1
        /\ \A id \in DOMAIN records :
              /\ records[id].doi = Canon[consumed[1]].doi
              /\ records[id].arxiv_id = Canon[consumed[2]].arxiv_id
        /\ phase = "finalized" =>
              /\ Len(output) = 1
              /\ output[1].doi = Canon[consumed[1]].doi
              /\ output[1].arxiv_id = Canon[consumed[2]].arxiv_id

C4_Witness == BridgeConsumed /\ phase = "finalized" /\ Len(output) = 1

\* C5: every entry of the key index names a live cluster.
C5_NoStaleIndexEntry ==
    \A key \in DOMAIN key_to_record : key_to_record[key] \in DOMAIN records

CurrentKeys(id) ==
    {dedup_keys(records[id])[k] : k \in 1..Len(dedup_keys(records[id]))}

\* A cluster has been absorbed, and the index still holds a key that is no
\* longer one of its owner's current keys.
C5_Witness ==
    /\ NumClusters < next_record_id - 1
    /\ \E key \in DOMAIN key_to_record :
          /\ key_to_record[key] \in DOMAIN records
          /\ key \notin CurrentKeys(key_to_record[key])

\* C6: doi:<doi> whenever there is a DOI, else arxiv:<arxiv_id>, else title:<h>
\* with h the digest of the normalized title.
C6_PaperIdPreference ==
    phase = "finalized" =>
        \A k \in 1..Len(output) :
            /\ Truthy(output[k].doi) => output[k].paper_id = <<"doi:">> \o output[k].doi
            /\ (~Truthy(output[k].doi) /\ Truthy(output[k].arxiv_id))
                  => output[k].paper_id = <<"arxiv:">> \o output[k].arxiv_id
            /\ (~Truthy(output[k].doi) /\ ~Truthy(output[k].arxiv_id))
                  => output[k].paper_id
                        = <<"title:">> \o Sha1(normalize_title(output[k].title))

C6_Witness ==
    /\ phase = "finalized"
    /\ \E k \in 1..Len(output) : Truthy(output[k].doi) /\ Truthy(output[k].arxiv_id)
    /\ \E k \in 1..Len(output) : ~Truthy(output[k].doi) /\ Truthy(output[k].arxiv_id)
    /\ \E k \in 1..Len(output) : ~Truthy(output[k].doi) /\ ~Truthy(output[k].arxiv_id)

\* The valid years of the records folded into a cluster.
YearsOf(id) ==
    {coerce_year(Catalog[consumed[folded[id][k]]].year) : k \in 1..Len(folded[id])}
        \ {NoYear}

\* C7: a cluster's year is the least valid year folded into it, absent if none.
C7_MinimumYear ==
    \A id \in DOMAIN records :
        /\ YearsOf(id) = {} => records[id].year = NoYear
        /\ YearsOf(id) # {} => records[id].year = MinOf(YearsOf(id))

\* A bridging merge in which the least year came with an absorbed cluster.
C7_Witness ==
    /\ NumClusters < next_record_id - 1
    /\ \E id \in DOMAIN records :
          /\ Cardinality(YearsOf(id)) >= 2
          /\ records[id].year # coerce_year(Catalog[consumed[folded[id][1]]].year)

\* A failure after which the retry contract promises another attempt.
Retryable(o) == o \in {"retryable", "transport"}

AllRetryable(seq) == \A i \in DOMAIN seq : Retryable(seq[i])

Running == pc \in {"throttle", "urlopen", "sleep"}

\* C8: with retries = N, when the first k < N attempts fail retryably the call
\* goes on to attempt k+1, and when that attempt succeeds the call returns its
\* response after exactly k retry sleeps.
C8_RetryUntilSuccess ==
    \A k \in 0..(retries - 1) :
        /\ (Len(outcomes) = k /\ AllRetryable(outcomes) /\ pc # "idle")
              => /\ Running
                 /\ status = "none"
                 /\ Len(sleeps) \in {k - 1, k}
                 /\ pc \in {"throttle", "urlopen"} => Len(sleeps) = k
        /\ (/\ Len(outcomes) = k + 1
            /\ AllRetryable(SubSeq(outcomes, 1, k))
            /\ outcomes[k + 1] = "ok")
              => /\ pc = "returned"
                 /\ status = "200"
                 /\ Len(sleeps) = k

\* Responses [503, 503, 200] and [URLError, 200] with retries = 3.
C8_Witness ==
    /\ retries = 3
    /\ pc = "returned"
    /\ \/ outcomes = <<"retryable", "retryable", "ok">> /\ Len(sleeps) = 2
       \/ outcomes = <<"transport", "ok">> /\ Len(sleeps) = 1

\* C9: a call of request with retries = N makes at most N attempts and comes to
\* an end; when all N attempts fail retryably it ends in failure, and nothing
\* more is attempted for it.
C9_BoundedAttempts ==
    /\ [](/\ Len(outcomes) <= retries
          /\ Running => attempt <= retries
          /\ (Len(outcomes) = retries /\ AllRetryable(outcomes))
                => /\ pc = "raised"
                   /\ status # "200"
                   /\ Len(sleeps) = retries - 1)
    /\ [][pc = "raised" => (outcomes' = outcomes \/ outcomes' = <<>>)]_all_vars
    /\ (Running ~> pc \in {"returned", "raised"})

\* Every attempt was used up on retryable failures.
C9_Witness ==
    /\ retries = 3
    /\ pc = "raised"
    /\ Len(outcomes) = 3
    /\ AllRetryable(outcomes)
    /\ outcomes[1] # outcomes[3]

\* C10: an HTTP error whose status is not retryable ends the call in failure on
\* that attempt: no retry sleep follows it and no attempt follows it.
C10_FatalStatus ==
    \A i \in DOMAIN outcomes :
        outcomes[i] = "fatal"
           => /\ i = Len(outcomes)
              /\ pc = "raised"
              /\ status \in {"403", "404"}
              /\ Len(sleeps) = i - 1

\* A 404 on the first of three attempts, and one after a retried failure.
C10_Witness ==
    /\ retries = 3
    /\ pc = "raised"
    /\ status = "404"
    /\ outcomes \in {<<"fatal">>, <<"retryable", "fatal">>}

\* The wait a Retry-After header asks for, in hundredths of a second.
AskedWait(header) == IF header = "0" THEN 0 ELSE 500

\* The sleeps decided so far in this call, the one about to be taken included.
DecidedSleeps == IF pc = "sleep" THEN Append(sleeps, sleep_for) ELSE sleeps

\* C11: whenever the failed response carried a Retry-After header, the sleep
\* before the next attempt is max(min_interval, the header's value), whatever
\* the exponential backoff would have been.
C11_RetryAfterHonored ==
    \A i \in DOMAIN DecidedSleeps :
        retry_afters[i] # "absent"
            => DecidedSleeps[i] = Max(min_interval, AskedWait(retry_afters[i]))

\* The same for a header named exactly "Retry-After" whose value is a number.
RetryAfter_NumberHonored ==
    \A i \in DOMAIN DecidedSleeps :
        retry_afters[i] \in {"5", "0"}
            => DecidedSleeps[i] = Max(min_interval, AskedWait(retry_afters[i]))

\* The retry sleeps i and i+1 of this call both followed a failure without a
\* Retry-After header.
NoRetryAfter(i) == retry_afters[i] = "absent" /\ retry_afters[i + 1] = "absent"

\* C12: without Retry-After headers each retry sleep of a call is
\* max(min_interval, 0.9 * 2^(attempt-1) + jitter) for a jitter in [0, 0.35],
\* and the sleep before retry a+1 is at least the sleep before retry a.
C12_NonDecreasingBackoff ==
    /\ \A i \in DOMAIN DecidedSleeps :
          retry_afters[i] = "absent"
             => \E jitter \in 0..35 :
                   DecidedSleeps[i] = Max(min_interval, 90 * 2^(i - 1) + jitter)
    /\ \A i \in 1..(Len(DecidedSleeps) - 1) :
          NoRetryAfter(i) => DecidedSleeps[i + 1] >= DecidedSleeps[i]

\* [503, 503, ...] without headers: the greatest jitter, then the least.
C12_Witness ==
    /\ Len(sleeps) = 2
    /\ NoRetryAfter(1)
    /\ sleeps[1] = 125
    /\ sleeps[2] = 180

\* C13: an attempt to a host the client has already sent an attempt to (a retry
\* of the same call or an attempt of a later call) is issued no earlier than
\* min_interval after that earlier attempt was issued.
C13_MinimumSpacing ==
    /\ (pc = "urlopen" /\ gap # NoGap) => gap >= min_interval
    /\ (pc = "urlopen" /\ Len(outcomes) > 0) => gap # NoGap

\* The first attempt of a call that had to wait out the rest of min_interval,
\* and a retry issued later than min_interval after the failed attempt.
C13_Witness ==
    /\ pc = "urlopen"
    /\ gap # NoGap
    /\ \/ attempt = 1 /\ min_interval = 600 /\ gap = 600
       \/ attempt = 2 /\ min_interval = 100 /\ gap > 100

FixedOrder == <<"OpenAlex", "Crossref", "Semantic Scholar", "OpenReview">>

IsPrefix(a, b) == Len(a) <= Len(b) /\ SubSeq(b, 1, Len(a)) = a

CollectionOver == main_pc \in {"resolve_mineru", "download", "write"}

\* C14: the four fetchers are called once each in the fixed order whatever the
\* earlier ones did, and a fetcher's call, raise it or not, leaves the records
\* already collected in place.
C14_SourceFaultIsolation ==
    /\ [](/\ IsPrefix(invoked, FixedOrder)
          /\ CollectionOver => invoked = FixedOrder)
    /\ [][/\ IsPrefix(raw_papers, raw_papers')
          /\ invoked' # invoked
                => /\ invoked' = Append(invoked, FixedOrder[Len(invoked) + 1])
                   /\ raw_papers' \in {raw_papers,
                                       raw_papers \o FetchResults[Len(invoked) + 1]}]_all_vars

\* Crossref and OpenReview raised; OpenAlex's records are kept and Semantic
\* Scholar's were still collected.
C14_Witness ==
    /\ main_pc = "write"
    /\ invoked = FixedOrder
    /\ raw_papers = FetchResults[1] \o FetchResults[3]

\* A --years value every block of which is a year or an ordered range of years
\* within [1900, 2100].
YearTextValid(text) ==
    \A k \in 1..Len(text) :
        /\ text[k].kind # "text"
        /\ text[k].begin <= text[k].end
        /\ text[k].begin >= 1900
        /\ text[k].end <= 2100

\* Every configuration check passes.
ConfigurationPasses(a) ==
    /\ a.max_per_source > 0
    /\ a.min_pdf_bytes > 0
    /\ a.mineru_timeout > 0
    /\ a.timeout > 0
    /\ a.retries > 0
    /\ a.min_interval >= 0
    /\ YearTextValid(a.years)

\* C15: a run whose configuration passes validation does not end without having
\* written the deduplicated catalog, whatever failed on the way and whether or
\* not PDF download was requested.
C15_CatalogWritten ==
    (main_pc = "exited" /\ ConfigurationPasses(args))
        => /\ written # NotWritten
           /\ exit_code = 0

\* The same for the runs that get as far as download_pdfs or do not download.
CatalogWritten_WhenMineruFound ==
    (main_pc = "exited" /\ ConfigurationPasses(args)
        /\ (args.mineru_found \/ ~args.download_pdf \/ raw_papers = <<>>))
        => /\ written = <<deduped_papers>>
           /\ exit_code = 0

\* C16: when any configuration check fails, main ends with exit code 2 as its
\* first step, and no fetcher was called and no HTTP request issued.
C16_ConfigurationErrorsFatal ==
    (~ConfigurationPasses(args) /\ main_pc # "validate")
        => /\ main_pc = "exited"
           /\ exit_code = 2
           /\ ~network_used
           /\ invoked = <<>>
           /\ written = NotWritten

\* --retries 0 with everything else as it should be, and an out-of-range year.
C16_Witness ==
    /\ main_pc = "exited"
    /\ exit_code = 2
    /\ \/ args.retries = 0 /\ ConfigurationPasses([args EXCEPT !.retries = 1])
       \/ args.years = <<YearRange(2100, 2101)>>
             /\ ConfigurationPasses([args EXCEPT !.years = <<>>])

\* A cluster apart from the two paths download_pdfs may set.
ApartFromPaths(paper) == [paper EXCEPT !.pdf_path = None, !.paper_md_path = None]

ApartFromPathsAll(papers) == [k \in 1..Len(papers) |-> ApartFromPaths(papers[k])]

ReportedIn(failures, paper) ==
    \E f \in 1..Len(failures) : failures[f].paper_id = paper.paper_id

DownloadsBegun == main_pc \in {"download", "write"} \/ written # NotWritten

\* C17: download_pdfs leaves the clusters what and where they were (the same
\* clusters in the same order with the same paper_id and the same fields apart
\* from the two paths), and a cluster whose download or conversion failed has
\* no markdown path and is in the failure list of its kind.
C17_DownloadsLeaveCatalog ==
    DownloadsBegun =>
        /\ ApartFromPathsAll(deduped_papers)
              = ApartFromPathsAll(without_paths_all(deduplicate_papers(RawsAt(raw_papers))))
        /\ \A k \in DOMAIN download_outcomes :
              /\ download_outcomes[k] = "download failed"
                    => /\ deduped_papers[k].paper_md_path = None
                       /\ ReportedIn(failed_downloads, deduped_papers[k])
              /\ download_outcomes[k] = "conversion failed"
                    => /\ deduped_papers[k].paper_md_path = None
                       /\ ReportedIn(failed_mineru_parses, deduped_papers[k])
              /\ download_outcomes[k] = "converted"
                    => deduped_papers[k].paper_md_path # None
        /\ written # NotWritten => written = <<deduped_papers>>

\* Four clusters: a failed download, a failed conversion and a success among them.
C17_Witness ==
    /\ main_pc = "write"
    /\ Len(deduped_papers) = 4
    /\ download_outcomes
          = <<"download failed", "converted", "conversion failed", "download failed">>


\* ---------------------------------------------------------------- C18

\* The rule for one term as the claim words it.
TermMatchesAsClaimed(venue, term) ==
    IF term # <<>> /\ Head(term) = CANONICAL_VENUE_MARKER_PREFIX
    THEN \E token_group \in CANONICAL_VENUE_TOKEN_RULES(Tail(term)) :
             token_group \subseteq split(venue, <<>>)
    ELSE IsSubstring(term, venue) \/ IsSubstring(venue, term)

SomeTermMatchesAsClaimed(venue, terms) ==
    \E k \in 1..Len(terms) : TermMatchesAsClaimed(venue, terms[k])

JudgedOnVenue ==
    /\ fn_called = "paper_passes_filters"
    /\ year_passes(fn_input.paper, fn_input.years)

\* C18 as stated: paper_passes_filters accepts a record on venue exactly when no
\* terms were requested or at least one requested term matches its normalized
\* venue.
C18_VenueFilterRule ==
    JudgedOnVenue
        => (fn_result <=>
               \/ fn_input.venue_terms = <<>>
               \/ SomeTermMatchesAsClaimed(normalize_venue(fn_input.paper.venue),
                                           fn_input.venue_terms))

\* C18: paper_passes_filters accepts a record on venue exactly when no terms were
\* requested, or its normalized venue is not empty and at least one requested
\* term matches it.
C18_VenueFilterRule_NonEmptyVenue ==
    JudgedOnVenue
        => (fn_result <=>
               \/ fn_input.venue_terms = <<>>
               \/ /\ normalize_venue(fn_input.paper.venue) # <<>>
                  /\ SomeTermMatchesAsClaimed(normalize_venue(fn_input.paper.venue),
                                              fn_input.venue_terms))

\* The venue "c" accepted for the plain term "ccs" it is a part of, after the
\* marker of ieee-sp did not match.
C18_Witness ==
    /\ JudgedOnVenue
    /\ fn_input.paper.venue = <<"c">>
    /\ fn_input.venue_terms = <<canonical_venue_marker(<<"i", "e", "e", "e", "-", "s", "p">>),
                                <<"c", "c", "s">>>>
    /\ fn_result = TRUE

\* ---------------------------------------------------------------- C19

\* The bodies that start with "10.", in the letter case they may come in.
DoiBodies == {"10.1/a", "10.1/A", "10.1/b"}

\* The spellings of body b the claim names.
SpellingsOf(b) ==
    {<<b>>}
        \cup {<<p, b>> : p \in {"doi:", "DOI:", "Doi:"}}
        \cup {<<u, b>> : u \in {"http://doi.org/", "https://doi.org/",
                                "http://dx.doi.org/", "https://dx.doi.org/"}}

\* What is left of a value once white space, a resolver URL and a scheme are off.
RECURSIVE StrippedForm(_)
StrippedForm(value) ==
    IF value = None \/ value = <<>> THEN <<>>
    ELSE IF IsSpace(Head(value)) THEN StrippedForm(Tail(value))
    ELSE IF IsSpace(value[Len(value)]) THEN StrippedForm(SubSeq(value, 1, Len(value) - 1))
    ELSE value

WithoutHead(value, heads) ==
    IF value # <<>> /\ Head(value) \in heads THEN Tail(value) ELSE value

StrippedOfPrefixes(value) ==
    StrippedForm(WithoutHead(WithoutHead(StrippedForm(value),
                                         {"http://doi.org/", "https://doi.org/",
                                          "http://dx.doi.org/", "https://dx.doi.org/",
                                          "HTTPS://DOI.ORG/"}),
                             {"doi:", "DOI:", "Doi:"}))

\* C19: normalize_doi maps a body b that starts with "10.", "doi:" + b in any
\* letter case of the prefix and the four resolver URLs followed by b to b in
\* lower case, and maps a value whose stripped form does not start with "10."
\* to None.
C19_DoiNormalization ==
    fn_called = "normalize_doi"
        => /\ \A b \in DoiBodies :
                  fn_input \in SpellingsOf(b) => fn_result = <<Lower(b)>>
           /\ (StrippedOfPrefixes(fn_input) = <<>>
                  \/ Lower(Head(StrippedOfPrefixes(fn_input))) \notin {"10.1/a", "10.1/b"})
                 => fn_result = None

\* "DOI:10.1/A" came out as "10.1/a".
C19_Witness ==
    /\ fn_called = "normalize_doi"
    /\ fn_input = <<"DOI:", "10.1/A">>
    /\ fn_result = <<"10.1/a">>

\* ---------------------------------------------------------------- C20

\* C20: between two records, every current join key of every live cluster is in
\* the key index and maps to that cluster's own id, so that no two live clusters
\* have a current join key in common.
C20_IndexConsistency ==
    /\ \A id \in DOMAIN records :
           \A key \in CurrentKeys(id) :
               /\ key \in DOMAIN key_to_record
               /\ key_to_record[key] = id
    /\ \A id \in DOMAIN records : \A other \in DOMAIN records \ {id} :
           CurrentKeys(id) \cap CurrentKeys(other) = {}

\* Two live clusters, one of which has all three kinds of key and has left a key
\* behind in the index when a merge changed its title.
C20_Witness ==
    /\ NumClusters >= 2
    /\ \E id \in DOMAIN records :
          /\ Cardinality(CurrentKeys(id)) = 3
          /\ \E key \in DOMAIN key_to_record :
                 /\ key[1] = "title"
                 /\ key_to_record[key] = id
                 /\ key \notin CurrentKeys(id)

\* ---------------------------------------------------------------- C21

\* The live clusters the next record i is matched with, in ascending id order,
\* and the clusters themselves followed by the record.
MatchedBy(i) == matched_ids(Resolver, dedup_keys(Canon[i]))

Contributors(i) ==
    [k \in 1..Cardinality(MatchedBy(i)) |-> records[SortedIds(MatchedBy(i))[k]]]
        \o <<Canon[i]>>

\* The first value that is present, the survivor's own when none is.
FirstPresent(values) ==
    IF \E k \in 1..Len(values) : Truthy(values[k])
    THEN values[CHOOSE k \in 1..Len(values) :
                    /\ Truthy(values[k])
                    /\ \A j \in 1..(k - 1) : ~Truthy(values[j])]
    ELSE values[1]

FieldOf(papers, field) == [k \in 1..Len(papers) |-> papers[k][field]]

\* The values of the lists one after another, each value where it first occurs.
RECURSIVE InOrderOnce(_, _)
InOrderOnce(values, seen) ==
    IF values = <<>> THEN seen
    ELSE InOrderOnce(Tail(values),
                     IF \E k \in 1..Len(seen) : seen[k] = Head(values)
                     THEN seen ELSE Append(seen, Head(values)))

IsBridgeStep(i) ==
    /\ phase = "resolving"
    /\ consumed' = Append(consumed, i)
    /\ Titled(i)
    /\ Cardinality(MatchedBy(i)) >= 2

\* C21: when the incoming record is matched with several live clusters, the one
\* with the smallest id survives and the others leave the cluster map; the
\* survivor's doi, arxiv_id and url are the first present among the survivor, the
\* absorbed clusters in ascending id order and the incoming record, and its
\* sources are theirs in that order.
C21_BridgeMergeOrder ==
    [][\A i \in 1..Len(Catalog) :
          IsBridgeStep(i)
              => /\ DOMAIN records'
                       = DOMAIN records \ (MatchedBy(i) \ {MinOf(MatchedBy(i))})
                 /\ \A field \in {"doi", "arxiv_id", "url"} :
                        records'[MinOf(MatchedBy(i))][field]
                            = FirstPresent(FieldOf(Contributors(i), field))
                 /\ records'[MinOf(MatchedBy(i))].sources
                        = InOrderOnce(Flatten(FieldOf(Contributors(i), "sources")), <<>>)]_vars

\* Record 14 has joined the clusters of 1, 6 and 10: the DOI is the survivor's,
\* the arXiv id is that of 6, which beat the one of 10 and its own, and the
\* landing page is that of 10, which beat its own.
C21_Witness ==
    /\ consumed = <<1, 6, 10, 14>>
    /\ DOMAIN records = {1}
    /\ records[1].doi = Canon[1].doi
    /\ records[1].arxiv_id = Canon[6].arxiv_id
    /\ Canon[10].arxiv_id \notin {None, Canon[6].arxiv_id}
    /\ records[1].url = Canon[10].url
    /\ Canon[14].url \notin {None, Canon[10].url}

\* ---------------------------------------------------------------- C22

\* C22: a doi, arxiv_id or url that a cluster holds is the same after every step
\* that leaves the cluster live; such a field only changes from absent to
\* present.
C22_FirstWriteWins ==
    [][\A id \in DOMAIN records \cap DOMAIN records' :
          \A field \in {"doi", "arxiv_id", "url"} :
              \/ records'[id][field] = records[id][field]
              \/ ~Truthy(records[id][field])]_vars

\* Record 1 was followed by record 12, which has its title and another DOI, and
\* by record 14, which has its DOI and a landing page: the DOI is still that of
\* record 1, and the landing page that was absent is now that of record 14.
C22_Witness ==
    /\ consumed = <<1, 12, 14>>
    /\ DOMAIN records = {1}
    /\ Canon[12].doi \notin {None, Canon[1].doi}
    /\ records[1].doi = Canon[1].doi
    /\ ~Truthy(Canon[1].url)
    /\ records[1].url = Canon[14].url

\* ---------------------------------------------------------------- C23

\* The first of the titles that none of them is longer than.
FirstLongest(titles) ==
    titles[CHOOSE k \in 1..Len(titles) :
               /\ \A j \in 1..Len(titles) : Len(titles[j]) <= Len(titles[k])
               /\ \A j \in 1..(k - 1) : Len(titles[j]) < Len(titles[k])]

IsMergeStep(i) ==
    /\ phase = "resolving"
    /\ consumed' = Append(consumed, i)
    /\ Titled(i)
    /\ MatchedBy(i) # {}

\* C23: a merge leaves the target with the incoming title when that is strictly
\* longer and with its own otherwise, and with the normalization of the title it
\* is left with; every cluster's title_norm is normalize_title of its title.
C23_TitleMergeRule ==
    /\ [][\A i \in 1..Len(Catalog) :
              IsMergeStep(i)
                  => /\ records'[MinOf(MatchedBy(i))].title
                           = FirstLongest(FieldOf(Contributors(i), "title"))
                     /\ (MatchedBy(i) = {MinOf(MatchedBy(i))}
                           => records'[MinOf(MatchedBy(i))].title
                                 = IF Len(Canon[i].title)
                                         > Len(records[MinOf(MatchedBy(i))].title)
                                   THEN Canon[i].title
                                   ELSE records[MinOf(MatchedBy(i))].title)]_vars
    /\ [](\A id \in DOMAIN records :
              records[id].title_norm = normalize_title(records[id].title))

\* The cluster of record 1 kept its title against the equally long one of record
\* 14 and then took the longer one of record 4.
C23_Witness ==
    /\ consumed = <<1, 14, 4>>
    /\ DOMAIN records = {1}
    /\ Len(Canon[14].title) = Len(Canon[1].title)
    /\ Canon[14].title # Canon[1].title
    /\ Len(Canon[4].title) > Len(Canon[1].title)
    /\ records[1].title = Canon[4].title
    /\ records[1].title_norm = normalize_title(Canon[4].title)
    /\ records[1].title_norm # Canon[1].title_norm

\* ---------------------------------------------------------------- C24

\* The incoming values that are not among those held, in incoming order.
RECURSIVE NotAlreadyIn(_, _)
NotAlreadyIn(values, held) ==
    IF values = <<>> THEN <<>>
    ELSE IF \E k \in 1..Len(held) : held[k] = Head(values)
         THEN NotAlreadyIn(Tail(values), held)
         ELSE <<Head(values)>> \o NotAlreadyIn(Tail(values), held)

NoValueTwice(values) ==
    \A j, k \in 1..Len(values) : values[j] = values[k] => j = k

ListFields == {"authors", "pdf_urls", "sources"}

\* C24: after a merge each of the target's authors, pdf_urls and sources starts
\* with what it held before and holds no value twice; when the incoming record
\* is merged into one cluster, what follows are exactly the incoming values that
\* were not held, in incoming order.
C24_OrderedSetUnion ==
    [][\A i \in 1..Len(Catalog) :
          IsMergeStep(i)
              => \A field \in ListFields :
                    /\ Len(records'[MinOf(MatchedBy(i))][field])
                          >= Len(records[MinOf(MatchedBy(i))][field])
                    /\ SubSeq(records'[MinOf(MatchedBy(i))][field], 1,
                              Len(records[MinOf(MatchedBy(i))][field]))
                          = records[MinOf(MatchedBy(i))][field]
                    /\ NoValueTwice(records'[MinOf(MatchedBy(i))][field])
                    /\ (Cardinality(MatchedBy(i)) = 1
                          => records'[MinOf(MatchedBy(i))][field]
                                = records[MinOf(MatchedBy(i))][field]
                                    \o NotAlreadyIn(Canon[i][field],
                                                    records[MinOf(MatchedBy(i))][field]))]_vars

\* Record 2 added its two authors and its source after those of record 1, and
\* record 3 added its source but no author, its only one being held already.
C24_Witness ==
    /\ consumed = <<1, 2, 3>>
    /\ DOMAIN records = {1}
    /\ records[1].authors = Canon[1].authors \o Canon[2].authors
    /\ Len(Canon[3].authors) = 1
    /\ Canon[3].authors[1] = Canon[2].authors[2]
    /\ records[1].sources = Canon[1].sources \o Canon[2].sources \o Canon[3].sources

\* ---------------------------------------------------------------- C25

\* The live cluster with k - 1 live clusters of smaller id.
IdAtRank(k) ==
    CHOOSE id \in DOMAIN records :
        Cardinality({other \in DOMAIN records : other < id}) = k - 1

\* C25: every id given to a new cluster is the counter's value, greater than
\* every id given before, whether or not that cluster is still live; the output
\* lists the live clusters by ascending id, which is the order in which the
\* records that created them arrived.
C25_AllocationAndOutputOrder ==
    /\ [][/\ next_record_id' >= next_record_id
          /\ DOMAIN records' \ DOMAIN records \subseteq {next_record_id}
          /\ DOMAIN records' \ DOMAIN records # {}
                => next_record_id' = next_record_id + 1]_vars
    /\ [](\A id \in DOMAIN records : id < next_record_id)
    /\ [](phase = "finalized"
            => /\ Len(output) = NumClusters
               /\ \A k \in 1..Len(output) :
                      output[k] = finalize_paper(records[IdAtRank(k)])
               /\ \A k \in 1..Len(output) : \A l \in (k + 1)..Len(output) :
                      /\ IdAtRank(k) < IdAtRank(l)
                      /\ folded[IdAtRank(k)][1] < folded[IdAtRank(l)][1])

\* Cluster 2 was absorbed into cluster 1 by record 7; record 1 then created
\* cluster 3, not another cluster 2, and is the second paper of the output.
C25_Witness ==
    /\ consumed = <<5, 6, 7, 1>>
    /\ phase = "finalized"
    /\ DOMAIN records = {1, 3}
    /\ next_record_id = 4
    /\ Len(output) = 2
    /\ output[1].title = records[1].title
    /\ output[2].title = Canon[1].title

\* ---------------------------------------------------------------- C26

\* The title of record i is missing, empty or white space only.
NoTitle(i) ==
    \/ Catalog[i].title = None
    \/ \A k \in 1..Len(Catalog[i].title) : IsSpace(Catalog[i].title[k])

\* C26: the step that processes a record without a title changes neither the
\* cluster map nor the key index nor the next-id counter, and the loop goes on.
C26_TitlelessDropped ==
    [][\A i \in 1..Len(Catalog) :
          (phase = "resolving" /\ consumed' = Append(consumed, i) /\ NoTitle(i))
              => /\ records' = records
                 /\ key_to_record' = key_to_record
                 /\ next_record_id' = next_record_id
                 /\ phase' = "resolving"]_vars

\* The three records without a title went by, each with the DOI of record 1, and
\* record 1 then made the first cluster.
C26_Witness ==
    /\ consumed = <<8, 15, 16, 1>>
    /\ NoTitle(8) /\ NoTitle(15) /\ NoTitle(16)
    /\ Catalog[15].title = None
    /\ Catalog[16].title = <<>>
    /\ DOMAIN records = {1}
    /\ next_record_id = 2
    /\ records[1] = Canon[1]

\* ---------------------------------------------------------------- C27

\* Each request starts after the one before it and where that one ended.
StartsIncrease(requests) ==
    \A k \in 2..Len(requests) : requests[k].start > requests[k - 1].start

NoneTwiceNoneSkipped(requests) ==
    \A k \in 2..Len(requests) :
        requests[k].start = requests[k - 1].start + requests[k - 1].size

\* C27: the requests of a fetcher start at strictly increasing item offsets,
\* each where the one before ended, so that no item of the provider is asked for
\* twice and none is skipped.
C27_IncreasingPageOffsets ==
    /\ StartsIncrease(fetch.requests)
    /\ NoneTwiceNoneSkipped(fetch.requests)
    /\ \A k \in 1..Len(fetch.ends) :
          /\ StartsIncrease(fetch.ends[k].requests)
          /\ NoneTwiceNoneSkipped(fetch.ends[k].requests)

\* The same for the fetchers that ask by offset.
IncreasingOffsets_ByOffset ==
    /\ (fetch.pc = "fetching" /\ ~IsPaged(SourceFunctions[fetch.source_index]))
          => StartsIncrease(fetch.requests) /\ NoneTwiceNoneSkipped(fetch.requests)
    /\ \A k \in 1..Len(fetch.ends) :
          ~IsPaged(SourceFunctions[k])
              => /\ StartsIncrease(fetch.ends[k].requests)
                 /\ NoneTwiceNoneSkipped(fetch.ends[k].requests)

\* A fetcher that asks by offset went through three requests.
IncreasingOffsets_ByOffset_Reached ==
    \E k \in 1..Len(fetch.ends) :
        /\ ~IsPaged(SourceFunctions[k])
        /\ Len(fetch.ends[k].requests) >= 3
        /\ fetch.ends[k].outcome = "returned"

\* ---------------------------------------------------------------- C28

\* C28: no two papers of the output of deduplicate_papers have the same
\* paper_id.
C28_PaperIdUnique ==
    phase = "finalized"
        => \A k, l \in 1..Len(output) :
               output[k].paper_id = output[l].paper_id => k = l

\* The same for the papers that have a DOI, an arXiv id or a normalized title.
PaperIdUnique_WhenIdentified ==
    phase = "finalized"
        => \A k, l \in 1..Len(output) :
               (/\ output[k].paper_id = output[l].paper_id
                /\ \/ Truthy(output[k].doi)
                   \/ Truthy(output[k].arxiv_id)
                   \/ normalize_title(output[k].title) # <<>>)
                   => k = l

\* ---------------------------------------------------------------- C29

\* What the fetchers up to the n-th that returned have returned, in source order.
RECURSIVE ReturnedUpTo(_)
ReturnedUpTo(n) ==
    IF n = 0 THEN <<>>
    ELSE ReturnedUpTo(n - 1)
            \o (IF fetch.ends[n].outcome = "returned" THEN fetch.ends[n].papers ELSE <<>>)

\* C29: raw_papers holds the papers of the fetchers that returned, whole and in
\* source order, and no paper of a source whose fetcher raised, whatever that
\* fetcher had accepted before.
C29_FailingSourceContributesNothing ==
    /\ fetch.raw_papers = ReturnedUpTo(Len(fetch.ends))
    /\ \A k \in 1..Len(fetch.ends) :
          fetch.ends[k].outcome = "raised"
              => \A p \in 1..Len(fetch.raw_papers) : fetch.raw_papers[p][1] # k

\* The collection is over: Crossref raised on its third request with papers
\* accepted from two pages, and the fetchers before and after it returned theirs.
C29_Witness ==
    /\ fetch.pc = "returned"
    /\ fetch.ends[2].outcome = "raised"
    /\ Len(fetch.ends[2].requests) = 3
    /\ fetch.ends[2].papers # <<>>
    /\ fetch.ends[1].outcome = "returned" /\ fetch.ends[1].papers # <<>>
    /\ fetch.ends[3].outcome = "returned" /\ fetch.ends[3].papers # <<>>
    /\ fetch.raw_papers # <<>>

\* ---------------------------------------------------------------- C30

\* The text holds what one of the ARXIV_PATTERNS looks for.
MentionsArxiv(text) ==
    /\ Truthy(text)
    /\ \E k \in 1..Len(text) :
          text[k] \in ArxivPathTokens \cup ArxivSchemeTokens
                        \cup NewStyleIdTokens \cup OldStyleIdTokens

FromArxiv(i) == MentionsArxiv(Catalog[i].arxiv_id) \/ MentionsArxiv(Catalog[i].url)

\* Records i and j have a DOI or a normalized title in common.
SameDoiOrTitle(i, j) ==
    \/ Truthy(Canon[i].doi) /\ Canon[i].doi = Canon[j].doi
    \/ Truthy(Canon[i].title_norm) /\ Canon[i].title_norm = Canon[j].title_norm

\* C30: a record resolved has an arxiv_id only if its arXiv field or its URL
\* holds what an arXiv pattern looks for, and two records of which neither does
\* and that share neither DOI nor normalized title are two clusters.
C30_ArxivIdOnlyFromArxivPatterns ==
    /\ \A p \in 1..Len(consumed) :
          (Titled(consumed[p]) /\ Truthy(Canon[consumed[p]].arxiv_id))
              => FromArxiv(consumed[p])
    /\ \A i, j \in 1..Len(Catalog) :
          (/\ consumed = <<i, j>>
           /\ i # j
           /\ Titled(i) /\ Titled(j)
           /\ ~FromArxiv(i) /\ ~FromArxiv(j)
           /\ ~SameDoiOrTitle(i, j))
              => NumClusters = 2

\* The first half for the records that have no URL or an arXiv one.
ArxivIdFromPatterns_WithoutOtherUrl ==
    \A p \in 1..Len(consumed) :
        (/\ Titled(consumed[p])
         /\ Truthy(Canon[consumed[p]].arxiv_id)
         /\ (Catalog[consumed[p]].url = None \/ MentionsArxiv(Catalog[consumed[p]].url)))
            => FromArxiv(consumed[p])

=========================================================================
